---- MODULE Spec2Model ----
(***************************************************************************)
(* Package extraction from loosely formatted parts-list worksheets:        *)
(* row geometry, section segmentation, merge repair, forward fill, record  *)
(* emission (packages.py / extract_images_all.py) and the image linking of *)
(* build_data.py.                                                          *)
(*                                                                         *)
(* Python values are modelled as follows.                                  *)
(*   - Optional[T]: a sequence of length <= 1 (<<>> is None, <<x>> is x).  *)
(*   - a cell value: a record [t, s, n]; t is "none", "str" or "int",      *)
(*     s the characters of a str (one-character strings), n an int.        *)
(*   - the sparse cell dictionary of a worksheet: a function from          *)
(*     <<row, column>> to cell values; an absent key reads as None.        *)
(***************************************************************************)
EXTENDS Integers, Sequences, FiniteSets, TLC

\* ------------------------------------------------------------------------
\* Bounds of the model
\* ------------------------------------------------------------------------
MaxGeomRows == 4

MaxSegRows == 3

MaxFillRows == 4

MaxFlatRows == 3

MaxMerges == 2

\* rows of a sheet given to process_workbook (title row, header row, detail rows)
MaxWbRows == 4

\* rows of a sheet whose images are linked to its packages
MaxLinkRows == 3

\* rows of a sheet given to build_data
MaxBdRows == 4

\* embedded images of a sheet
MaxImages == 2

\* rows of a sheet whose two image-resolution paths are compared
MaxAgreeRows == 4

\* workbooks of one run of main
MaxDocs == 2

\* rows of a sheet whose row boundaries are built
MaxApproxRows == 3

\* ------------------------------------------------------------------------
\* Python values
\* ------------------------------------------------------------------------
None == <<>>

Some(x) == <<x>>

NoneCell == [t |-> "none", s |-> <<>>, n |-> 0]

StrCell(chars) == [t |-> "str", s |-> chars, n |-> 0]

IntCell(k) == [t |-> "int", s |-> <<>>, n |-> k]

Digits == <<"0", "1", "2", "3", "4", "5", "6", "7", "8", "9">>

UpperAlpha == <<"A", "B", "C", "D", "E", "F", "G", "H", "I", "J", "K", "L", "M",
                "N", "O", "P", "Q", "R", "S", "T", "U", "V", "W", "X", "Y", "Z">>

LowerAlpha == <<"a", "b", "c", "d", "e", "f", "g", "h", "i", "j", "k", "l", "m",
                "n", "o", "p", "q", "r", "s", "t", "u", "v", "w", "x", "y", "z">>

IsSpace(c) == c \in {" ", "\t", "\n"}

IsDigit(c) == \E i \in DOMAIN Digits : Digits[i] = c

DigitVal(c) == (CHOOSE i \in DOMAIN Digits : Digits[i] = c) - 1

\* str.lower() on one character
LowerChar(c) ==
    IF \E i \in DOMAIN UpperAlpha : UpperAlpha[i] = c
    THEN LowerAlpha[CHOOSE i \in DOMAIN UpperAlpha : UpperAlpha[i] = c]
    ELSE c

\* str.lower()
py_lower(chars) == [i \in DOMAIN chars |-> LowerChar(chars[i])]

\* str.strip(): drops leading and trailing whitespace
RECURSIVE py_lstrip(_)
py_lstrip(chars) ==
    IF chars # <<>> /\ IsSpace(Head(chars)) THEN py_lstrip(Tail(chars)) ELSE chars

RECURSIVE py_rstrip(_)
py_rstrip(chars) ==
    IF chars # <<>> /\ IsSpace(chars[Len(chars)])
    THEN py_rstrip(SubSeq(chars, 1, Len(chars) - 1))
    ELSE chars

py_strip(chars) == py_rstrip(py_lstrip(chars))

\* `kw in text` for str operands
py_in(kw, chars) ==
    \E i \in 1..(Len(chars) - Len(kw) + 1) : SubSeq(chars, i, i + Len(kw) - 1) = kw

\* str(n) for an int n
RECURSIVE NatChars(_)
NatChars(k) ==
    IF k < 10 THEN <<Digits[k + 1]>>
    ELSE NatChars(k \div 10) \o <<Digits[(k % 10) + 1]>>

\* str(value) for a cell value that is not None
py_str(v) ==
    IF v.t = "str" THEN v.s
    ELSE IF v.n < 0 THEN <<"-">> \o NatChars(-v.n) ELSE NatChars(v.n)

\* value of a non-empty sequence of decimal digits
RECURSIVE DigitsVal(_)
DigitsVal(chars) ==
    IF chars = <<>> THEN 0
    ELSE 10 * DigitsVal(SubSeq(chars, 1, Len(chars) - 1)) + DigitVal(chars[Len(chars)])

AllDigits(chars) == \A i \in DOMAIN chars : IsDigit(chars[i])

\* float(text): [ok, cls, neg, whole]; cls is "fin", "inf" or "nan", whole the
\* magnitude of the integral part.  Grammar: [sign] (digits [. digits] | . digits
\* | inf | infinity | nan), surrounding whitespace ignored; anything else is a
\* ValueError (ok = FALSE).
py_float(text) ==
    LET t0   == py_strip(text)
        sgn  == t0 # <<>> /\ Head(t0) \in {"+", "-"}
        neg  == t0 # <<>> /\ Head(t0) = "-"
        body == IF sgn THEN Tail(t0) ELSE t0
        low  == py_lower(body)
        dots == {i \in DOMAIN body : body[i] = "."}
        ip   == IF dots = {} THEN body
                ELSE SubSeq(body, 1, (CHOOSE i \in dots : TRUE) - 1)
        fp   == IF dots = {} THEN <<>>
                ELSE SubSeq(body, (CHOOSE i \in dots : TRUE) + 1, Len(body))
    IN  IF low \in {<<"i", "n", "f">>, <<"i", "n", "f", "i", "n", "i", "t", "y">>}
        THEN [ok |-> TRUE, cls |-> "inf", neg |-> neg, whole |-> 0]
        ELSE IF low = <<"n", "a", "n">>
        THEN [ok |-> TRUE, cls |-> "nan", neg |-> neg, whole |-> 0]
        ELSE IF Cardinality(dots) <= 1 /\ AllDigits(ip) /\ AllDigits(fp)
                /\ Len(ip) + Len(fp) >= 1
        THEN [ok |-> TRUE, cls |-> "fin", neg |-> neg, whole |-> DigitsVal(ip)]
        ELSE [ok |-> FALSE, cls |-> "fin", neg |-> FALSE, whole |-> 0]

\* is `value is not None and str(value).strip() != ""`
NonBlank(v) == v.t # "none" /\ py_strip(py_str(v)) # <<>>

\* ------------------------------------------------------------------------
\* State
\* ------------------------------------------------------------------------
VARIABLES
    pc,                 \* position in the running function
    ws_max_row,         \* ws.max_row
    ws_max_column,      \* ws.max_column
    row_height,         \* ws.row_dimensions[r].height, Optional per row
    defaultRowHeight,   \* ws.sheet_format.defaultRowHeight, Optional
    cells,              \* ws cell values, <<row, column>> -> cell value
    merged_cells,       \* ws.merged_cells.ranges
    top_y,              \* compute_row_y_map: top_y
    bottom_y,           \* compute_row_y_map: bottom_y
    acc,                \* compute_row_y_map: acc
    row,                \* the loop variable of the running loop
    header_row,         \* build_packages: header_row
    packages,           \* build_packages: packages (the list of sections)
    current_package,    \* build_packages: current_package, Optional
    call_args,          \* arguments of the function being run on its own
    calls,              \* how many times that function has run
    cells_at_call,      \* history: the cell values when the latest call began
    flat_col,           \* flatten_vertical_merges_in_column: col
    merged_ranges,      \* flatten_vertical_merges_in_column: ranges still to visit
    ret_pc,             \* where flatten_vertical_merges_in_column returns to
    merged_at_call,     \* history: ws.merged_cells.ranges when the call began
    images,             \* ws._images: the anchors and bytes of the embedded images
    idx,                \* the index of the running loop over images or packages
    unmatched_images,   \* map_images_to_packages: unmatched_images
    next_uid,           \* uuid4(): the identifiers handed out so far
    image_files,        \* the files of IMAGES_DIR
    detail_cols,        \* process_workbook: detail_cols, Optional
    data_ranges,        \* normalize_...: data_ranges, package index -> (start, end)
    cells_before_fill,  \* history: the cell values when the forward-fill stage began
    rows_for_excel,     \* process_workbook: rows_for_excel
    result,             \* what process_workbook returned, Optional
    sections,           \* build_data.extract_manual_to_flat: sections
    images_info,        \* build_data.extract_manual_to_flat: images_info
    files,              \* main: the workbooks of the run, in processing order
    file_idx,           \* main: how many of them have been processed
    all_rows,           \* main: the records collected so far
    doc_rows,           \* history: what each processed workbook contributed
    dir_events,         \* history: the clearings of and the writes to the image directory
    global_index,       \* images.walk_and_process_root: global_index
    current_index,      \* images.process_workbook: current_index
    boundaries,         \* build_data.build_row_boundaries: boundaries
    y_pos,              \* build_data.approx_row_from_y: y_pos
    closest_row         \* build_data.approx_row_from_y: the row returned, Optional

sheet_vars == <<ws_max_row, ws_max_column, row_height, defaultRowHeight>>

geom_vars == <<top_y, bottom_y, acc>>

seg_vars == <<header_row, packages, current_package>>

call_vars == <<call_args, calls, cells_at_call>>

flat_vars == <<flat_col, merged_ranges, ret_pc, merged_at_call>>

link_vars == <<images, unmatched_images, next_uid, image_files>>

wb_vars == <<detail_cols, data_ranges, cells_before_fill, rows_for_excel, result>>

bd_vars == <<sections, images_info>>

run_vars == <<files, file_idx, all_rows, doc_rows, global_index, current_index,
              boundaries, y_pos, closest_row>>

vars == <<pc, sheet_vars, cells, merged_cells, geom_vars, row, seg_vars, call_vars,
          flat_vars, link_vars, idx, wb_vars, bd_vars, run_vars, dir_events>>

\* what the row-map actions leave alone (besides pc and row)
GeomFrame == <<sheet_vars, cells, merged_cells, seg_vars, call_vars, flat_vars,
               link_vars, idx, wb_vars, bd_vars,
               run_vars, dir_events>>

\* what the segmentation actions leave alone
SegFrame == <<sheet_vars, cells, merged_cells, geom_vars, call_vars, flat_vars,
              link_vars, idx, wb_vars, bd_vars,
               run_vars, dir_events>>

\* ws.cell(row=r, column=c).value
CellValue(cs, r, c) == IF <<r, c>> \in DOMAIN cs THEN cs[<<r, c>>] ELSE NoneCell

\* ------------------------------------------------------------------------
\* compute_row_y_map
\* ------------------------------------------------------------------------
EMU_PER_POINT == 12700

DEFAULT_ROW_HEIGHT == 15

\* sheet_format.defaultRowHeight or 15
default_height_points ==
    IF defaultRowHeight = None \/ defaultRowHeight[1] = 0
    THEN DEFAULT_ROW_HEIGHT
    ELSE defaultRowHeight[1]

\* h = ws.row_dimensions[r].height; if h is None: h = default_height_points
RowHeightOrDefault_ignores_explicit(r) == default_height_points

RowHeightOrDefault(r) ==
    IF row_height[r] = None THEN default_height_points ELSE row_height[r][1]

\* one iteration of `for r in range(1, ws.max_row + 1)`
compute_row_y_map_step ==
    /\ pc = "compute_row_y_map"
    /\ row <= ws_max_row
    /\ top_y' = (row :> acc) @@ top_y
    /\ acc' = acc + RowHeightOrDefault(row) * EMU_PER_POINT
    /\ bottom_y' = (row :> acc') @@ bottom_y
    /\ row' = row + 1
    /\ UNCHANGED <<pc, GeomFrame>>

\* the loop is exhausted: return top_y, bottom_y
compute_row_y_map_return ==
    /\ pc = "compute_row_y_map"
    /\ row > ws_max_row
    /\ pc' = "row_y_map_done"
    /\ UNCHANGED <<geom_vars, row, GeomFrame>>

\* ------------------------------------------------------------------------
\* find_first_header_row, build_packages
\* ------------------------------------------------------------------------
KW_part_number == <<"p", "a", "r", "t", " ", "n", "u", "m", "b", "e", "r">>

KW_description == <<"d", "e", "s", "c", "r", "i", "p", "t", "i", "o", "n">>

KW_qty == <<"q", "t", "y">>

HEADER_KEYWORDS == {KW_part_number, KW_description, KW_qty}

EXCLUDED_PACKAGE_TOKENS ==
    { <<"#", "u", "n", "k", "n", "o", "w", "n", "!">>,
      <<"#", "v", "a", "l", "u", "e", "!">>,
      <<"#", "d", "i", "v", "/", "0", "!">>,
      <<"#", "r", "e", "f", "!">>,
      <<"#", "n", "a", "m", "e", "?">>,
      <<"#", "n", "u", "l", "l", "!">>,
      <<"#", "n", "u", "m", "!">>,
      <<"#", "n", "/", "a">> }

\* Python truthiness of a cell value: None, "" and 0 are falsy
Truthy(v) ==
    \/ v.t = "str" /\ v.s # <<>>
    \/ v.t = "int" /\ v.n # 0

\* any(keyword in text for keyword in HEADER_KEYWORDS)
HasHeaderKeyword(text) == \E kw \in HEADER_KEYWORDS : py_in(kw, text)

\* does row r hold a header cell in some column
IsHeaderRow(r) ==
    \E c \in 1..ws_max_column :
        LET v == CellValue(cells, r, c)
        IN  Truthy(v) /\ HasHeaderKeyword(py_lower(py_strip(py_str(v))))

\* a search that returns the last row holding a header keyword
find_first_header_row_last ==
    IF \E r \in 1..ws_max_row : IsHeaderRow(r)
    THEN CHOOSE r \in 1..ws_max_row :
            IsHeaderRow(r) /\ \A q \in (r + 1)..ws_max_row : ~IsHeaderRow(q)
    ELSE 0

\* the first row, top to bottom, holding a header keyword in any column; 0 if none
find_first_header_row ==
    IF \E r \in 1..ws_max_row : IsHeaderRow(r)
    THEN CHOOSE r \in 1..ws_max_row :
            IsHeaderRow(r) /\ \A q \in 1..(r - 1) : ~IsHeaderRow(q)
    ELSE 0

\* start_row = header_row - 1
PackageStartRow_two_above(h) == h - 2

PackageStartRow(h) == h - 1

\* a section whose name is lower-cased
OpenPackage_lower_name(text, r) ==
    [name |-> py_lower(text), start_row |-> r, end_row |-> None, y_start |-> None,
     y_end |-> None, images |-> <<>>, abs_images |-> <<>>, uid |-> None,
     image_filename |-> None, category |-> None]

\* current_package = {"name": text, "start_row": row, "end_row": None, ...}
OpenPackage(text, r) ==
    [name |-> text, start_row |-> r, end_row |-> None, y_start |-> None,
     y_end |-> None, images |-> <<>>, abs_images |-> <<>>, uid |-> None,
     image_filename |-> None, category |-> None]

\* current_package["end_row"] = last; y_start / y_end from the row map
ClosePackage_ends_on_next_start(pkg, last) ==
    [pkg EXCEPT !.end_row = Some(last + 1),
                !.y_start = Some(top_y[pkg.start_row]),
                !.y_end = Some(bottom_y[last])]

\* a section whose y_end is the top of its last row
ClosePackage_y_end_at_top(pkg, last) ==
    [pkg EXCEPT !.end_row = Some(last),
                !.y_start = Some(top_y[pkg.start_row]),
                !.y_end = Some(top_y[last])]

\* current_package["end_row"] = last, with the coordinates of its rows
ClosePackage(pkg, last) ==
    [pkg EXCEPT !.end_row = Some(last),
                !.y_start = Some(top_y[pkg.start_row]),
                !.y_end = Some(bottom_y[last])]

\* a loop that compares the trimmed text with the tokens without lower-casing it
SkippedByLoop_case_sensitive(v) ==
    \/ v.t = "none"
    \/ HasHeaderKeyword(py_strip(py_str(v)))
    \/ py_strip(py_str(v)) \in EXCLUDED_PACKAGE_TOKENS

\* is the first-column value v skipped by the segmentation loop
SkippedByLoop(v) ==
    \/ v.t = "none"
    \/ HasHeaderKeyword(py_lower(py_strip(py_str(v))))
    \/ py_lower(py_strip(py_str(v))) \in EXCLUDED_PACKAGE_TOKENS

\* header_row = find_first_header_row(ws); return [] when header_row <= 1
build_packages_begin ==
    /\ pc = "build_packages"
    /\ header_row' = find_first_header_row
    /\ IF header_row' <= 1
       THEN /\ pc' = "packages_done"
            /\ row' = row
       ELSE /\ pc' = "build_packages_loop"
            /\ row' = PackageStartRow(header_row')
    /\ packages' = <<>>
    /\ current_package' = None
    /\ UNCHANGED SegFrame

\* one iteration of `for row in range(start_row, ws.max_row + 1)`
build_packages_step ==
    /\ pc = "build_packages_loop"
    /\ row <= ws_max_row
    /\ LET v == CellValue(cells, row, 1)
       IN  IF SkippedByLoop(v)
           THEN UNCHANGED <<packages, current_package>>
           ELSE /\ packages' =
                      IF current_package # None
                      THEN Append(packages, ClosePackage(current_package[1], row - 1))
                      ELSE packages
                /\ current_package' = Some(OpenPackage(py_strip(py_str(v)), row))
    /\ row' = row + 1
    /\ UNCHANGED <<pc, header_row>>
    /\ UNCHANGED SegFrame

\* after the loop: close the open package at ws.max_row and return the list
build_packages_return ==
    /\ pc = "build_packages_loop"
    /\ row > ws_max_row
    /\ packages' =
          IF current_package # None
          THEN Append(packages, ClosePackage(current_package[1], ws_max_row))
          ELSE packages
    /\ pc' = "packages_done"
    /\ UNCHANGED <<row, header_row, current_package>>
    /\ UNCHANGED SegFrame

\* process_workbook: top_y, bottom_y = compute_row_y_map(ws), then build_packages
call_build_packages ==
    /\ pc = "row_y_map_done"
    /\ pc' = "build_packages"
    /\ UNCHANGED <<row, seg_vars>>
    /\ UNCHANGED SegFrame

\* ------------------------------------------------------------------------
\* forward_fill_column_in_range
\* ------------------------------------------------------------------------
\* cell.value = v (only non-blank values are ever written)
SetCell(cs, r, c, v) == (<<r, c>> :> v) @@ cs

\* the loop `for row in range(start_row, end_row + 1)` from row r on, with
\* last_value as it stands (Optional)
RECURSIVE FillFrom(_, _, _, _, _)
FillFrom(cs, col, r, end_row, last_value) ==
    IF r > end_row THEN cs
    ELSE LET value == CellValue(cs, r, col)
         IN  IF NonBlank(value)
             THEN FillFrom(cs, col, r + 1, end_row, Some(value))
             ELSE IF last_value # None
             THEN FillFrom(SetCell(cs, r, col, last_value[1]), col, r + 1, end_row,
                           last_value)
             ELSE FillFrom(cs, col, r + 1, end_row, last_value)

\* a fill that forgets last_value once it has been written to one cell
RECURSIVE FillOneBelowFrom(_, _, _, _, _)
FillOneBelowFrom(cs, col, r, end_row, last_value) ==
    IF r > end_row THEN cs
    ELSE LET value == CellValue(cs, r, col)
         IN  IF NonBlank(value)
             THEN FillOneBelowFrom(cs, col, r + 1, end_row, Some(value))
             ELSE IF last_value # None
             THEN FillOneBelowFrom(SetCell(cs, r, col, last_value[1]), col, r + 1,
                                   end_row, None)
             ELSE FillOneBelowFrom(cs, col, r + 1, end_row, last_value)

forward_fill_one_below(cs, col, start_row, end_row) ==
    FillOneBelowFrom(cs, col, start_row, end_row, None)

\* a fill that tests `value is not None` only, so that a whitespace-only cell
\* counts as a value
RECURSIVE FillNotNoneFrom(_, _, _, _, _)
FillNotNoneFrom(cs, col, r, end_row, last_value) ==
    IF r > end_row THEN cs
    ELSE LET value == CellValue(cs, r, col)
         IN  IF value.t # "none"
             THEN FillNotNoneFrom(cs, col, r + 1, end_row, Some(value))
             ELSE IF last_value # None
             THEN FillNotNoneFrom(SetCell(cs, r, col, last_value[1]), col, r + 1,
                                  end_row, last_value)
             ELSE FillNotNoneFrom(cs, col, r + 1, end_row, last_value)

forward_fill_not_none(cs, col, start_row, end_row) ==
    FillNotNoneFrom(cs, col, start_row, end_row, None)

\* a fill whose last_value starts from the cell just above the range
forward_fill_from_above(cs, col, start_row, end_row) ==
    FillFrom(cs, col, start_row, end_row,
             IF NonBlank(CellValue(cs, start_row - 1, col))
             THEN Some(CellValue(cs, start_row - 1, col)) ELSE None)

\* forward_fill_column_in_range(ws, col, start_row, end_row): the cells after it
forward_fill_column_in_range(cs, col, start_row, end_row) ==
    FillFrom(cs, col, start_row, end_row, None)

\* a call forward_fill_column_in_range(ws, col, start_row, end_row)
call_forward_fill ==
    /\ pc = "forward_fill"
    /\ calls < 2
    /\ cells_at_call' = cells
    /\ cells' = forward_fill_column_in_range(cells, call_args.col, call_args.start_row,
                                             call_args.end_row)
    /\ calls' = calls + 1
    /\ UNCHANGED <<pc, sheet_vars, merged_cells, geom_vars, run_vars, dir_events, row, seg_vars, call_args,
                   flat_vars, link_vars, idx, wb_vars, bd_vars>>

\* ------------------------------------------------------------------------
\* flatten_vertical_merges_in_column
\* ------------------------------------------------------------------------
\* the cells of a merge rectangle
RangeCells(mr) == (mr.min_row..mr.max_row) \X (mr.min_col..mr.max_col)

\* min_col == max_col == col and max_row > min_row
IsVerticalInColumn_touches_column(mr, col) ==
    mr.min_col <= col /\ col <= mr.max_col /\ mr.max_row > mr.min_row

IsVerticalInColumn(mr, col) ==
    mr.min_col = col /\ mr.max_col = col /\ mr.max_row > mr.min_row

\* ws.unmerge_cells(range): the cells of the range other than its top-left one
\* are dropped from the sheet (they read as None afterwards)
UnmergeCells(cs, mr) ==
    [k \in DOMAIN cs \ (RangeCells(mr) \ {<<mr.min_row, mr.min_col>>}) |-> cs[k]]

\* if value is non-blank: write it to every row min_row..max_row of the column
WriteMergeValue_skips_last_row(cs, mr, col, value) ==
    IF NonBlank(value)
    THEN [k \in (DOMAIN cs) \cup ((mr.min_row..(mr.max_row - 1)) \X {col}) |->
            IF k[2] = col /\ k[1] \in mr.min_row..(mr.max_row - 1) THEN value ELSE cs[k]]
    ELSE cs

WriteMergeValue(cs, mr, col, value) ==
    IF NonBlank(value)
    THEN [k \in (DOMAIN cs) \cup ((mr.min_row..mr.max_row) \X {col}) |->
            IF k[2] = col /\ k[1] \in mr.min_row..mr.max_row THEN value ELSE cs[k]]
    ELSE cs

\* merged_ranges = list(ws.merged_cells.ranges)
flatten_begin ==
    /\ pc = "flatten_vertical_merges"
    /\ merged_ranges' = merged_cells
    /\ merged_at_call' = merged_cells
    /\ cells_at_call' = cells
    /\ pc' = "flatten_loop"
    /\ UNCHANGED <<sheet_vars, cells, merged_cells, geom_vars, run_vars, dir_events, row, seg_vars,
                   call_args, calls, flat_col, ret_pc, link_vars, idx, wb_vars,
                   bd_vars>>

\* one iteration of `for merged_range in merged_ranges`; the ranges are a set,
\* so the order in which they are visited is not fixed
flatten_step ==
    /\ pc = "flatten_loop"
    /\ \E mr \in merged_ranges :
          /\ merged_ranges' = merged_ranges \ {mr}
          /\ IF IsVerticalInColumn(mr, flat_col)
             THEN LET value == CellValue(cells, mr.min_row, flat_col)
                  IN  /\ merged_cells' = merged_cells \ {mr}
                      /\ cells' = WriteMergeValue(UnmergeCells(cells, mr), mr,
                                                  flat_col, value)
             ELSE UNCHANGED <<cells, merged_cells>>
    /\ UNCHANGED <<pc, sheet_vars, geom_vars, run_vars, dir_events, row, seg_vars, call_vars, flat_col,
                   ret_pc, merged_at_call, link_vars, idx, wb_vars, bd_vars>>

\* every range has been visited
flatten_return ==
    /\ pc = "flatten_loop"
    /\ merged_ranges = {}
    /\ pc' = ret_pc
    /\ UNCHANGED <<sheet_vars, cells, merged_cells, geom_vars, run_vars, dir_events, row, seg_vars,
                   call_vars, flat_vars, link_vars, idx, wb_vars, bd_vars>>

\* ------------------------------------------------------------------------
\* to_int_or_none
\* ------------------------------------------------------------------------
\* the outcome of to_int_or_none(value): None, an int, or an exception that
\* leaves the function.  float(text) raising ValueError and int(nan) raising
\* ValueError are caught; int(inf) raises OverflowError, which is not.
to_int_or_none(value) ==
    IF value.t = "none"
    THEN [kind |-> "none", n |-> 0]
    ELSE LET text == py_strip(py_str(value))
             f    == py_float(text)
         IN  IF text = <<>> THEN [kind |-> "none", n |-> 0]
             ELSE IF ~f.ok THEN [kind |-> "none", n |-> 0]
             ELSE IF f.cls = "nan" THEN [kind |-> "none", n |-> 0]
             ELSE IF f.cls = "inf" THEN [kind |-> "raise", n |-> 0]
             ELSE [kind |-> "int", n |-> IF f.neg THEN 0 - f.whole ELSE f.whole]

\* ------------------------------------------------------------------------
\* fill_packages_categories
\* ------------------------------------------------------------------------
CATEGORY_COL == 6

Max(a, b) == IF a >= b THEN a ELSE b

\* the rows of pkg whose CATEGORY_COL cell is a str with a non-empty strip()
CategoryRows(cs, pkg) ==
    {r \in pkg.start_row..pkg.end_row[1] :
        /\ CellValue(cs, r, CATEGORY_COL).t = "str"
        /\ py_strip(CellValue(cs, r, CATEGORY_COL).s) # <<>>}

\* category = the stripped text of the first such row, else None
CategoryOf(cs, pkg) ==
    LET rs == CategoryRows(cs, pkg)
    IN  IF rs = {} THEN None
        ELSE Some(py_strip(CellValue(cs, CHOOSE r \in rs : \A q \in rs : r <= q,
                                     CATEGORY_COL).s))

\* process_workbook: `if not packages: return []`
no_packages_return ==
    /\ pc = "packages_done"
    /\ IF packages = <<>>
       THEN /\ result' = Some(<<>>)
            /\ pc' = "returned"
       ELSE /\ result' = result
            /\ pc' = "fill_packages_categories"
    /\ UNCHANGED <<sheet_vars, cells, merged_cells, geom_vars, run_vars, dir_events, row, seg_vars, call_vars,
                   flat_vars, link_vars, idx, detail_cols, data_ranges,
                   cells_before_fill, rows_for_excel, bd_vars>>

\* fill_packages_categories(ws, packages); the ws.cell reads create the cells
\* of column 6, so ws.max_column is at least 6 afterwards
fill_packages_categories ==
    /\ pc = "fill_packages_categories"
    /\ packages' = [i \in DOMAIN packages |->
                      [packages[i] EXCEPT !.category = CategoryOf(cells, packages[i])]]
    /\ ws_max_column' = Max(ws_max_column, CATEGORY_COL)
    /\ pc' = "map_images_to_packages"
    /\ idx' = 0
    /\ unmatched_images' = <<>>
    /\ UNCHANGED <<ws_max_row, row_height, defaultRowHeight, cells, merged_cells,
                   geom_vars, run_vars, dir_events, row, header_row, current_package, call_vars, flat_vars,
                   images, next_uid, image_files, wb_vars, bd_vars>>

\* ------------------------------------------------------------------------
\* map_images_to_packages, assign_uids_and_save_images
\* ------------------------------------------------------------------------
\* an image of ws._images: the anchor's type name, its _from row (None when
\* the anchor has no _from), its pos.y and ext.cy (pos / ext None when absent,
\* Some(None) when the y / cy attribute is None) and what get_image_bytes
\* returns for it ("none" for None, "empty" for b"", else the magic it starts
\* with)
Image(tname, from, pos, ext, data) ==
    [tname |-> tname, from |-> from, pos |-> pos, ext |-> ext, data |-> data]

\* a search that leaves out the last row of a package
PackagesForRow_half_open(pkgs, r) ==
    {i \in DOMAIN pkgs : pkgs[i].start_row <= r /\ r < pkgs[i].end_row[1]}

\* find_package_for_row: the indices of the packages whose rows hold `r`
PackagesForRow(pkgs, r) ==
    {i \in DOMAIN pkgs : pkgs[i].start_row <= r /\ r <= pkgs[i].end_row[1]}

\* a search whose interval is closed at y_end
PackagesForYCenter_closed(pkgs, y_top, cy) ==
    {i \in DOMAIN pkgs :
        /\ pkgs[i].y_start # None /\ pkgs[i].y_end # None
        /\ 2 * pkgs[i].y_start[1] <= 2 * y_top + cy
        /\ 2 * y_top + cy <= 2 * pkgs[i].y_end[1]}

\* find_package_for_y_center with center_y = y_top + cy / 2, compared doubled
PackagesForYCenter(pkgs, y_top, cy) ==
    {i \in DOMAIN pkgs :
        /\ pkgs[i].y_start # None /\ pkgs[i].y_end # None
        /\ 2 * pkgs[i].y_start[1] <= 2 * y_top + cy
        /\ 2 * y_top + cy < 2 * pkgs[i].y_end[1]}

\* the first element of a set of indices, 0 for `None`
FirstIndex(S) == IF S = {} THEN 0 ELSE CHOOSE i \in S : \A j \in S : i <= j

\* which branch of the loop body handles the image
AnchorBranch(img) ==
    IF img.tname \in {"OneCellAnchor", "TwoCellAnchor"} /\ img.from # None THEN "cell"
    ELSE IF img.tname = "AbsoluteAnchor" /\ img.pos # None
    THEN IF img.ext = None \/ img.pos[1] = None \/ img.ext[1] = None
         THEN "incomplete" ELSE "absolute"
    ELSE "other"

\* the package (index, 0 for none) the image resolves to
ResolvedPackage(pkgs, img) ==
    IF AnchorBranch(img) = "cell"
    THEN FirstIndex(PackagesForRow(pkgs, img.from[1] + 1))
    ELSE IF AnchorBranch(img) = "absolute"
    THEN FirstIndex(PackagesForYCenter(pkgs, img.pos[1][1], img.ext[1][1]))
    ELSE 0

\* a test that looks at the cell-anchored images only
HasImage_cell_only(pkg) == pkg.images # <<>>

\* `if pkg["images"] or pkg["abs_images"]`
HasImage(pkg) == pkg.images # <<>> \/ pkg.abs_images # <<>>

\* one iteration of `for idx, img in enumerate(images)`
map_images_step ==
    /\ pc = "map_images_to_packages"
    /\ idx < Len(images)
    /\ LET img == images[idx + 1]
           p   == ResolvedPackage(packages, img)
       IN  IF p = 0
           THEN /\ unmatched_images' = Append(unmatched_images, idx)
                /\ packages' = packages
           ELSE /\ unmatched_images' = unmatched_images
                /\ packages' =
                      IF HasImage(packages[p]) THEN packages
                      ELSE IF AnchorBranch(img) = "cell"
                      THEN [packages EXCEPT ![p].images = Append(@, idx)]
                      ELSE [packages EXCEPT ![p].abs_images = Append(@, idx)]
    /\ idx' = idx + 1
    /\ UNCHANGED <<pc, sheet_vars, cells, merged_cells, geom_vars, run_vars, dir_events, row, header_row,
                   current_package, call_vars, flat_vars, images, next_uid,
                   image_files, wb_vars, bd_vars>>

\* return unmatched_images; assign_uids_and_save_images starts
map_images_return ==
    /\ pc = "map_images_to_packages"
    /\ idx = Len(images)
    /\ pc' = "assign_uids_and_save_images"
    /\ idx' = 0
    /\ UNCHANGED <<sheet_vars, cells, merged_cells, geom_vars, run_vars, dir_events, row, seg_vars, call_vars,
                   flat_vars, link_vars, wb_vars, bd_vars>>

\* the image directory's history: a clearing, or the write of a file
ClearEvent == [op |-> "clear", name |-> <<>>]

WriteEvent(name) == [op |-> "write", name |-> name]

\* an identifier that is the same at every call
uuid4_repeating(n) == 1

\* str(uuid4()): an identifier not handed out before, n being the last one
uuid4(n) == n + 1

\* guess_image_ext
guess_image_ext(data) ==
    IF data \in {"png", "jpg", "gif", "bmp"} THEN data ELSE "jpg"

\* a test that takes b"" for bytes
HasBytes_not_none(data) == data # "none"

\* `if not img_bytes` fails: get_image_bytes returned bytes, and not b""
HasBytes(data) == data \notin {"none", "empty"}

\* img_idx: the package's first linked image, cell-anchored first
LinkedImage(pkg) ==
    IF pkg.images # <<>> THEN Some(pkg.images[1])
    ELSE IF pkg.abs_images # <<>> THEN Some(pkg.abs_images[1])
    ELSE None

\* one iteration of `for pkg in packages`: uid = str(uuid4()) is an
\* identifier not handed out before; the image file is written as
\* "<uid>.<ext>" unless there is no image, no bytes, or the write fails
assign_uids_step ==
    /\ pc = "assign_uids_and_save_images"
    /\ idx < Len(packages)
    /\ LET pkg     == packages[idx + 1]
           uid     == uuid4(next_uid)
           img_idx == LinkedImage(pkg)
           data    == IF img_idx = None THEN "none" ELSE images[img_idx[1] + 1].data
           name    == <<uid, guess_image_ext(data)>>
       IN  /\ next_uid' = uid
           /\ IF ~HasBytes(data)
              THEN /\ image_files' = image_files
                   /\ dir_events' = dir_events
                   /\ packages' = [packages EXCEPT ![idx + 1].uid = Some(uid),
                                                   ![idx + 1].image_filename = None]
              ELSE \/ /\ image_files' = image_files \cup {name}
                      /\ dir_events' = Append(dir_events, WriteEvent(name))
                      /\ packages' = [packages EXCEPT ![idx + 1].uid = Some(uid),
                                                      ![idx + 1].image_filename = Some(name)]
                   \/ /\ image_files' = image_files
                      /\ dir_events' = dir_events
                      /\ packages' = [packages EXCEPT ![idx + 1].uid = Some(uid),
                                                      ![idx + 1].image_filename = None]
    /\ idx' = idx + 1
    /\ UNCHANGED <<pc, sheet_vars, cells, merged_cells, geom_vars, run_vars, row, header_row,
                   current_package, call_vars, flat_vars, images, unmatched_images,
                   wb_vars, bd_vars>>

\* link_images_to_packages returns; detect_detail_columns is next
assign_uids_return ==
    /\ pc = "assign_uids_and_save_images"
    /\ idx = Len(packages)
    /\ pc' = "detect_detail_columns"
    /\ UNCHANGED <<sheet_vars, cells, merged_cells, geom_vars, run_vars, dir_events, row, seg_vars, call_vars,
                   flat_vars, link_vars, idx, wb_vars, bd_vars>>

\* ------------------------------------------------------------------------
\* detect_detail_columns
\* ------------------------------------------------------------------------
FIRST_DATA_COL == 2

MAX_OFFSET_COLS == 5

last_col_to_check == FIRST_DATA_COL + MAX_OFFSET_COLS - 1

\* is_hash or is_no, for a str cell
IsNoHeader(v) ==
    /\ v.t = "str"
    /\ \/ py_strip(v.s) = <<"#">>
       \/ py_lower(py_strip(v.s)) \in {<<"n", "o">>, <<"n", "o", ".">>,
                                       <<"n", "o", "#">>, <<"n", "o", ":">>}

\* candidate_no_cols, as (row, col) pairs
candidate_no_cols(cs, first_package) ==
    {k \in (first_package.start_row..first_package.end_row[1])
           \X (FIRST_DATA_COL..last_col_to_check) : IsNoHeader(CellValue(cs, k[1], k[2]))}

\* candidate_no_cols[0]: rows are scanned first, columns within a row
FirstCandidate(K) ==
    CHOOSE k \in K : \A q \in K : k[1] < q[1] \/ (k[1] = q[1] /\ k[2] <= q[2])

\* the return value of detect_detail_columns; max_column is ws.max_column as
\* it stands after the scan's ws.cell reads
detect_detail_columns_result(cs, first_package, max_column) ==
    LET K == candidate_no_cols(cs, first_package)
    IN  IF K = {} THEN None
        ELSE LET col_no == FirstCandidate(K)[2]
             IN  IF col_no + 3 > max_column THEN None
                 ELSE Some([col_no |-> col_no, col_part |-> col_no + 1,
                            col_desc |-> col_no + 2, col_qty |-> col_no + 3])

\* detail_cols = detect_detail_columns(ws, packages[0])
detect_detail_columns ==
    /\ pc = "detect_detail_columns"
    /\ ws_max_column' = Max(ws_max_column, last_col_to_check)
    /\ detail_cols' = detect_detail_columns_result(cells, packages[1], ws_max_column')
    /\ pc' = IF detail_cols' = None THEN "fallback" ELSE "normalize"
    /\ UNCHANGED <<ws_max_row, row_height, defaultRowHeight, cells, merged_cells,
                   geom_vars, run_vars, dir_events, row, seg_vars, call_vars, flat_vars, link_vars, idx,
                   data_ranges, cells_before_fill, rows_for_excel, result, bd_vars>>

\* ------------------------------------------------------------------------
\* process_workbook: the rows it returns
\* ------------------------------------------------------------------------
\* `x or ""` for an Optional text
OrEmpty(x) == IF x = None THEN <<>> ELSE x[1]

\* a tuple that leaves the category out
ExcelRow_without_category(pkg, no, part, desc, qty, r) ==
    [uid |-> pkg.uid, image_filename |-> OrEmpty(pkg.image_filename),
     pkg_name |-> pkg.name, no |-> no, part |-> part, desc |-> desc, qty |-> qty,
     category |-> <<>>, row |-> r]

\* one tuple of rows_for_excel; `row` records the sheet row it was built from
\* (0 for a package-level row)
ExcelRow(pkg, no, part, desc, qty, r) ==
    [uid |-> pkg.uid, image_filename |-> OrEmpty(pkg.image_filename),
     pkg_name |-> pkg.name, no |-> no, part |-> part, desc |-> desc, qty |-> qty,
     category |-> OrEmpty(pkg.category), row |-> r]

\* detail_cols is None: one package-level row per package
fallback_return ==
    /\ pc = "fallback"
    /\ rows_for_excel' = [i \in DOMAIN packages |->
                            ExcelRow(packages[i], StrCell(<<>>), <<>>, <<>>,
                                     StrCell(<<>>), 0)]
    /\ result' = Some(rows_for_excel')
    /\ pc' = "returned"
    /\ UNCHANGED <<sheet_vars, cells, merged_cells, geom_vars, run_vars, dir_events, row, seg_vars, call_vars,
                   flat_vars, link_vars, idx, detail_cols, data_ranges,
                   cells_before_fill, bd_vars>>

\* ------------------------------------------------------------------------
\* normalize_merged_detail_cells_for_all_packages
\* ------------------------------------------------------------------------
\* the rows of pkg that hold a part number or a description
DataRows(cs, pkg, col_part, col_desc) ==
    {r \in pkg.start_row..pkg.end_row[1] :
        NonBlank(CellValue(cs, r, col_part)) \/ NonBlank(CellValue(cs, r, col_desc))}

\* a range computed from the part-number column alone
find_data_rows_range_part_only(cs, pkg, col_part, col_desc) ==
    LET rs == DataRows(cs, pkg, col_part, col_part)
    IN  IF rs = {} THEN None
        ELSE Some(<<CHOOSE r \in rs : \A q \in rs : r <= q,
                    CHOOSE r \in rs : \A q \in rs : r >= q>>)

\* (data_start, data_end) or None
find_data_rows_range_for_package(cs, pkg, col_part, col_desc) ==
    LET rs == DataRows(cs, pkg, col_part, col_desc)
    IN  IF rs = {} THEN None
        ELSE Some(<<CHOOSE r \in rs : \A q \in rs : r <= q,
                    CHOOSE r \in rs : \A q \in rs : r >= q>>)

\* flatten_vertical_merges_in_column(ws, col_no)
normalize_flatten_no ==
    /\ pc = "normalize"
    /\ flat_col' = detail_cols[1].col_no
    /\ ret_pc' = "normalize_flatten_qty"
    /\ pc' = "flatten_vertical_merges"
    /\ UNCHANGED <<sheet_vars, cells, merged_cells, geom_vars, run_vars, dir_events, row, seg_vars, call_vars,
                   merged_ranges, merged_at_call, link_vars, idx, wb_vars, bd_vars>>

\* flatten_vertical_merges_in_column(ws, col_qty)
normalize_flatten_qty ==
    /\ pc = "normalize_flatten_qty"
    /\ flat_col' = detail_cols[1].col_qty
    /\ ret_pc' = "normalize_packages"
    /\ pc' = "flatten_vertical_merges"
    /\ UNCHANGED <<sheet_vars, cells, merged_cells, geom_vars, run_vars, dir_events, row, seg_vars, call_vars,
                   merged_ranges, merged_at_call, link_vars, idx, wb_vars, bd_vars>>

\* data_ranges = {}; the loop over the packages starts
normalize_packages_begin ==
    /\ pc = "normalize_packages"
    /\ data_ranges' = <<>>
    /\ cells_before_fill' = cells
    /\ idx' = 0
    /\ pc' = "normalize_loop"
    /\ UNCHANGED <<sheet_vars, cells, merged_cells, geom_vars, run_vars, dir_events, row, seg_vars, call_vars,
                   flat_vars, link_vars, detail_cols, rows_for_excel, result, bd_vars>>

\* the two forward fills of one package's data rows
FillPackage_to_package_end(cs, pkg, cols, res) ==
    forward_fill_column_in_range(
        forward_fill_column_in_range(cs, cols.col_no, res[1], pkg.end_row[1] + 1),
        cols.col_qty, res[1], pkg.end_row[1] + 1)

FillPackage(cs, pkg, cols, res) ==
    forward_fill_column_in_range(
        forward_fill_column_in_range(cs, cols.col_no, res[1], res[2]),
        cols.col_qty, res[1], res[2])

\* one iteration of `for idx, pkg in enumerate(packages)`
normalize_step ==
    /\ pc = "normalize_loop"
    /\ idx < Len(packages)
    /\ LET pkg  == packages[idx + 1]
           cols == detail_cols[1]
           res  == find_data_rows_range_for_package(cells, pkg, cols.col_part,
                                                    cols.col_desc)
       IN  IF res = None
           THEN UNCHANGED <<cells, data_ranges>>
           ELSE /\ data_ranges' = (idx :> res[1]) @@ data_ranges
                /\ cells' = FillPackage(cells, pkg, cols, res[1])
    /\ idx' = idx + 1
    /\ UNCHANGED <<pc, sheet_vars, merged_cells, geom_vars, run_vars, dir_events, row, seg_vars, call_vars,
                   flat_vars, link_vars, detail_cols, cells_before_fill,
                   rows_for_excel, result, bd_vars>>

\* return data_ranges; rows_for_excel = [] and the emission loop starts
normalize_return ==
    /\ pc = "normalize_loop"
    /\ idx = Len(packages)
    /\ rows_for_excel' = <<>>
    /\ idx' = 0
    /\ pc' = "emit_packages"
    /\ UNCHANGED <<sheet_vars, cells, merged_cells, geom_vars, run_vars, dir_events, row, seg_vars, call_vars,
                   flat_vars, link_vars, detail_cols, data_ranges, cells_before_fill,
                   result, bd_vars>>

\* ------------------------------------------------------------------------
\* process_workbook: the emission loops
\* ------------------------------------------------------------------------
\* one iteration of `for idx, pkg in enumerate(packages)` up to the row loop
emit_package ==
    /\ pc = "emit_packages"
    /\ idx < Len(packages)
    /\ IF idx \notin DOMAIN data_ranges
       THEN /\ idx' = idx + 1
            /\ UNCHANGED <<pc, row>>
       ELSE /\ row' = data_ranges[idx][1]
            /\ pc' = "emit_rows"
            /\ idx' = idx
    /\ UNCHANGED <<sheet_vars, cells, merged_cells, geom_vars, run_vars, dir_events, seg_vars, call_vars,
                   flat_vars, link_vars, wb_vars, bd_vars>>

\* has_part or has_desc
HasPartOrDesc(cs, r, cols) ==
    NonBlank(CellValue(cs, r, cols.col_part)) \/ NonBlank(CellValue(cs, r, cols.col_desc))

\* str(v).strip() if v is not None else ""
StrOrEmpty(v) == IF v.t = "none" THEN <<>> ELSE py_strip(py_str(v))

\* to_int_or_none's return value as a cell of the output row
IntOrNoneCell(c) == IF c.kind = "int" THEN IntCell(c.n) ELSE NoneCell

\* one iteration of `for row in range(data_start, data_end + 1)`; an
\* exception raised by to_int_or_none leaves process_workbook
emit_row ==
    /\ pc = "emit_rows"
    /\ row <= data_ranges[idx][2]
    /\ LET cols   == detail_cols[1]
           no_int == to_int_or_none(CellValue(cells, row, cols.col_no))
           qty_int == to_int_or_none(CellValue(cells, row, cols.col_qty))
       IN  IF ~HasPartOrDesc(cells, row, cols) \/ no_int.kind = "none"
           THEN /\ row' = row + 1
                /\ UNCHANGED <<pc, rows_for_excel>>
           ELSE IF no_int.kind = "raise" \/ qty_int.kind = "raise"
           THEN /\ pc' = "raised"
                /\ UNCHANGED <<row, rows_for_excel>>
           ELSE /\ rows_for_excel' =
                      Append(rows_for_excel,
                             ExcelRow(packages[idx + 1], IntCell(no_int.n),
                                      StrOrEmpty(CellValue(cells, row, cols.col_part)),
                                      StrOrEmpty(CellValue(cells, row, cols.col_desc)),
                                      IntOrNoneCell(qty_int), row))
                /\ row' = row + 1
                /\ pc' = pc
    /\ UNCHANGED <<sheet_vars, cells, merged_cells, geom_vars, run_vars, dir_events, seg_vars, call_vars,
                   flat_vars, link_vars, idx, detail_cols, data_ranges,
                   cells_before_fill, result, bd_vars>>

\* the row loop of one package is over
emit_rows_done ==
    /\ pc = "emit_rows"
    /\ row > data_ranges[idx][2]
    /\ idx' = idx + 1
    /\ pc' = "emit_packages"
    /\ UNCHANGED <<sheet_vars, cells, merged_cells, geom_vars, run_vars, dir_events, row, seg_vars, call_vars,
                   flat_vars, link_vars, wb_vars, bd_vars>>

\* return rows_for_excel
emit_return ==
    /\ pc = "emit_packages"
    /\ idx = Len(packages)
    /\ result' = Some(rows_for_excel)
    /\ pc' = "returned"
    /\ UNCHANGED <<sheet_vars, cells, merged_cells, geom_vars, run_vars, dir_events, row, seg_vars, call_vars,
                   flat_vars, link_vars, idx, detail_cols, data_ranges,
                   cells_before_fill, rows_for_excel, bd_vars>>

\* ------------------------------------------------------------------------
\* build_data.py: extract_manual_to_flat, sections and image linking
\* ------------------------------------------------------------------------
\* df = xls.parse(sheet_name, header=None): df.iloc[r, c] is the cell of sheet
\* row r + 1, column c + 1 (NaN, here NoneCell, for an empty cell)
df_iloc(cs, r, c) == CellValue(cs, r + 1, c + 1)

df_index == 0..(ws_max_row - 1)

df_columns == 0..(ws_max_column - 1)

\* chars.startswith(prefix)
py_startswith(chars, prefix) ==
    Len(chars) >= Len(prefix) /\ SubSeq(chars, 1, Len(prefix)) = prefix

\* isinstance(v, str) and v.strip().lower() == "part number"
IsPartNumberCell(v) == v.t = "str" /\ py_lower(py_strip(v.s)) = KW_part_number

\* detect_columns_and_headers: header_rows, as a set
bd_header_rows(cs) ==
    {r \in df_index : \E c \in df_columns : IsPartNumberCell(df_iloc(cs, r, c))}

\* the least and the greatest element of a non-empty set of integers
MinOf(S) == CHOOSE x \in S : \A y \in S : x <= y

MaxOf(S) == CHOOSE x \in S : \A y \in S : x >= y

\* the elements of a set of integers in ascending order
RECURSIVE Ascending(_)
Ascending(S) ==
    IF S = {} THEN <<>> ELSE <<MinOf(S)>> \o Ascending(S \ {MinOf(S)})

\* detect_columns_and_headers: pn_col, the first part-number column of the
\* first header row (-1 for None)
bd_pn_col(cs) ==
    LET hs == bd_header_rows(cs)
    IN  IF hs = {} THEN 0 - 1
        ELSE MinOf({c \in df_columns : IsPartNumberCell(df_iloc(cs, MinOf(hs), c))})

\* detect_columns_and_headers: desc_col, the last column of the first header
\* row whose text holds "description" and does not start with "no", else
\* pn_col + 1
bd_desc_col(cs) ==
    LET r0 == MinOf(bd_header_rows(cs))
        ds == {c \in df_columns :
                 /\ df_iloc(cs, r0, c).t = "str"
                 /\ ~py_startswith(py_lower(py_strip(df_iloc(cs, r0, c).s)), <<"n", "o">>)
                 /\ py_in(KW_description, py_lower(py_strip(df_iloc(cs, r0, c).s)))}
    IN  IF ds = {} THEN bd_pn_col(cs) + 1
        ELSE MaxOf(ds)

\* has_part / has_desc: a non-empty str after strip, or a non-str that is not NaN
bd_has_value(v) ==
    \/ v.t = "str" /\ py_strip(v.s) # <<>>
    \/ v.t \notin {"str", "none"}

\* data_rows of the header row hr, searched up to next_header
bd_data_rows(cs, hr, next_header) ==
    {r \in (hr + 1)..(next_header - 1) :
        \/ bd_has_value(df_iloc(cs, r, bd_pn_col(cs)))
        \/ /\ bd_desc_col(cs) \in df_columns
           /\ bd_has_value(df_iloc(cs, r, bd_desc_col(cs)))}

\* the section of the i-th header row (i from 0), given its data rows
bd_section(i, hr, rows) ==
    LET data_start == MinOf(rows)
        data_end   == MaxOf(rows)
    IN  [idx |-> i, title_row |-> hr - 1, header_row |-> hr,
         data_start |-> data_start, data_end |-> data_end,
         span_start |-> IF hr - 1 >= 0 THEN hr - 1 ELSE data_start,
         span_end |-> data_end, package_guid |-> None, image_filename |-> <<>>]

\* the loop `for i, header_row in enumerate(header_rows)` from index i on
RECURSIVE bd_sections_from(_, _, _)
bd_sections_from(cs, hs, i) ==
    IF i >= Len(hs) THEN <<>>
    ELSE LET next_header == IF i + 1 < Len(hs) THEN hs[i + 2] ELSE ws_max_row
             rows        == bd_data_rows(cs, hs[i + 1], next_header)
         IN  IF rows = {} THEN bd_sections_from(cs, hs, i + 1)
             ELSE <<bd_section(i, hs[i + 1], rows)>> \o bd_sections_from(cs, hs, i + 1)

\* images.sort(key=lambda im: (im["row_idx"] is None, im["row_idx"])); the
\* sort is stable
bd_sort_before(ims, i, j) ==
    LET a == ims[i].row_idx
        b == ims[j].row_idx
    IN  \/ a # None /\ b = None
        \/ a # None /\ b # None /\ a[1] < b[1]
        \/ (a = None) = (b = None) /\ (a = None \/ a[1] = b[1]) /\ i < j

bd_sorted(ims) ==
    LET n == Len(ims)
        p == CHOOSE f \in [1..n -> 1..n] :
                \A i, j \in 1..n : i < j => bd_sort_before(ims, f[i], f[j])
    IN  [i \in 1..n |-> ims[p[i]]]

\* extract_images: the images are sorted and returned
extract_images_return ==
    /\ pc = "extract_images"
    /\ images_info' = bd_sorted(images_info)
    /\ pc' = "detect_columns_and_headers"
    /\ UNCHANGED <<sheet_vars, cells, merged_cells, geom_vars, run_vars, dir_events, row, seg_vars, call_vars,
                   flat_vars, link_vars, idx, wb_vars, sections>>

\* detect_columns_and_headers and the construction of the sections; without
\* a part-number header the file is skipped
bd_build_sections ==
    /\ pc = "detect_columns_and_headers"
    /\ IF bd_header_rows(cells) = {}
       THEN /\ pc' = "skipped"
            /\ UNCHANGED <<sections, idx>>
       ELSE /\ sections' = bd_sections_from(cells, Ascending(bd_header_rows(cells)), 0)
            /\ idx' = 0
            /\ pc' = "link_sections"
    /\ UNCHANGED <<sheet_vars, cells, merged_cells, geom_vars, run_vars, dir_events, row, seg_vars, call_vars,
                   flat_vars, link_vars, wb_vars, images_info>>

\* does the image's row lie in the section's span
bd_in_span(sec, img) ==
    /\ img.row_idx # None
    /\ sec.span_start <= img.row_idx[1] /\ img.row_idx[1] <= sec.span_end

\* chosen_image: the first image that is not used and lies in the span (0: None)
chosen_image_ignores_used(ims, sec) ==
    FirstIndex({i \in DOMAIN ims : bd_in_span(sec, ims[i])})

chosen_image(ims, sec) ==
    FirstIndex({i \in DOMAIN ims : ~ims[i].used /\ bd_in_span(sec, ims[i])})

\* one iteration of `for sec in sections`: the section takes the chosen
\* image's guid and file name, or a fresh guid and no file name
bd_link_section ==
    /\ pc = "link_sections"
    /\ idx < Len(sections)
    /\ LET i == chosen_image(images_info, sections[idx + 1])
       IN  IF i # 0
           THEN /\ images_info' = [images_info EXCEPT ![i].used = TRUE]
                /\ sections' = [sections EXCEPT
                                   ![idx + 1].package_guid = Some(images_info[i].guid),
                                   ![idx + 1].image_filename = images_info[i].filename]
                /\ next_uid' = next_uid
           ELSE /\ images_info' = images_info
                /\ sections' = [sections EXCEPT
                                   ![idx + 1].package_guid = Some(next_uid + 1)]
                /\ next_uid' = next_uid + 1
    /\ idx' = idx + 1
    /\ UNCHANGED <<pc, sheet_vars, cells, merged_cells, geom_vars, run_vars, dir_events, row, seg_vars,
                   call_vars, flat_vars, images, unmatched_images, image_files, wb_vars>>

\* every section has been visited
bd_link_return ==
    /\ pc = "link_sections"
    /\ idx = Len(sections)
    /\ pc' = "sections_linked"
    /\ UNCHANGED <<sheet_vars, cells, merged_cells, geom_vars, run_vars, dir_events, row, seg_vars, call_vars,
                   flat_vars, link_vars, idx, wb_vars, bd_vars>>

\* ------------------------------------------------------------------------
\* Specifications
\* ------------------------------------------------------------------------
\* the segmentation variables before build_packages runs
SegIdle == header_row = 0 /\ packages = <<>> /\ current_package = None

\* no function is being run on its own
CallIdle == call_args = None /\ calls = 0 /\ cells_at_call = <<>>

\* no image, no identifier handed out, an empty images directory
LinkIdle ==
    images = <<>> /\ idx = 0 /\ unmatched_images = <<>> /\ next_uid = 0 /\ image_files = {}

\* process_workbook has not reached column detection
WbIdle ==
    /\ detail_cols = None /\ data_ranges = <<>> /\ cells_before_fill = <<>>
    /\ rows_for_excel = <<>> /\ result = None

\* build_data's extract_manual_to_flat is not running
BdIdle == sections = <<>> /\ images_info = <<>>

\* no run over several workbooks, no picture export and no row approximation
\* is going on
RunIdle ==
    /\ files = <<>> /\ file_idx = 0 /\ all_rows = <<>> /\ doc_rows = <<>>
    /\ dir_events = <<>> /\ global_index = 0 /\ current_index = 0
    /\ boundaries = <<>> /\ y_pos = None /\ closest_row = None

\* flatten_vertical_merges_in_column is not running
FlatIdle == flat_col = 0 /\ merged_ranges = {} /\ ret_pc = "" /\ merged_at_call = {}

\* the row map before compute_row_y_map runs
GeomIdle == top_y = <<>> /\ bottom_y = <<>> /\ acc = 0

\* Row heights in points: unset, zero (a collapsed row) or positive.
GeomHeights == {None, Some(0), Some(1), Some(20)}

InitGeom ==
    /\ pc = "compute_row_y_map"
    /\ ws_max_row \in 1..MaxGeomRows
    /\ ws_max_column = 1
    /\ row_height \in [1..ws_max_row -> GeomHeights]
    /\ defaultRowHeight \in {None, Some(0), Some(12)}
    /\ cells = <<>>
    /\ merged_cells = {}
    /\ GeomIdle
    /\ row = 1
    /\ SegIdle
    /\ CallIdle
    /\ FlatIdle
    /\ LinkIdle
    /\ WbIdle
    /\ BdIdle
    /\ RunIdle

NextGeom == compute_row_y_map_step \/ compute_row_y_map_return

SpecGeom == InitGeom /\ [][NextGeom]_vars

\* First-column values of the segmentation sheets: empty, whitespace only, two
\* section titles, a header token, an error token.
SegFirstColumn ==
    { NoneCell,
      StrCell(<<" ", " ">>),
      StrCell(<<" ", "R", "e", "a", "r", " ">>),
      StrCell(<<"A", "x", "l", "e">>),
      StrCell(<<" ", "Q", "t", "y">>),
      StrCell(<<"#", "N", "/", "A">>) }

\* Second-column values: empty or a header cell.
SegSecondColumn == { NoneCell, StrCell(<<"P", "a", "r", "t", " ", "N", "u", "m", "b", "e", "r">>) }

\* the sparse cell dictionary holding exactly the non-None values of a grid
SparseCells(grid) ==
    [k \in {q \in DOMAIN grid : grid[q].t # "none"} |-> grid[k]]

InitSeg ==
    /\ pc = "compute_row_y_map"
    /\ ws_max_row \in 1..MaxSegRows
    /\ ws_max_column = 2
    /\ row_height = [r \in 1..ws_max_row |-> None]
    /\ defaultRowHeight = None
    /\ \E c1 \in [1..ws_max_row -> SegFirstColumn], c2 \in [1..ws_max_row -> SegSecondColumn] :
          cells = SparseCells([k \in (1..ws_max_row) \X {1, 2} |->
                                 IF k[2] = 1 THEN c1[k[1]] ELSE c2[k[1]]])
    /\ merged_cells = {}
    /\ GeomIdle
    /\ row = 1
    /\ SegIdle
    /\ CallIdle
    /\ FlatIdle
    /\ LinkIdle
    /\ WbIdle
    /\ BdIdle
    /\ RunIdle

NextSeg ==
    \/ compute_row_y_map_step
    \/ compute_row_y_map_return
    \/ call_build_packages
    \/ build_packages_begin
    \/ build_packages_step
    \/ build_packages_return

SpecSeg == InitSeg /\ [][NextSeg]_vars

\* The height the sheet gives row r, in points: the explicit one, else the default.
SheetRowPoints(r) ==
    IF row_height[r] # None THEN row_height[r][1]
    ELSE IF defaultRowHeight # None /\ defaultRowHeight[1] # 0 THEN defaultRowHeight[1]
    ELSE 15

\* C5 as stated: once the map is built, top(1) = 0, top(r) < bottom(r) for every
\* row, and bottom(r) = top(r+1) for every row below the last.
C5_StrictlyIncreasing ==
    pc = "row_y_map_done" =>
        /\ top_y[1] = 0
        /\ \A r \in 1..ws_max_row : top_y[r] < bottom_y[r]
        /\ \A r \in 1..(ws_max_row - 1) : bottom_y[r] = top_y[r + 1]

\* C5 amended: top(1) = 0, the map is contiguous, and every row spans exactly its
\* height (explicit or default) times 12700 units, so top(r) <= bottom(r) with
\* top(r) < bottom(r) exactly for the rows of positive height; a row of explicit
\* height 0 has top(r) = bottom(r).  Stated of every row computed so far, and of
\* all rows 1..max_row once the function has returned.
C5_Contiguous ==
    /\ DOMAIN top_y = 1..(row - 1) /\ DOMAIN bottom_y = 1..(row - 1)
    /\ pc = "row_y_map_done" => row - 1 = ws_max_row
    /\ row > 1 => top_y[1] = 0
    /\ \A r \in DOMAIN top_y :
          /\ bottom_y[r] = top_y[r] + SheetRowPoints(r) * 12700
          /\ top_y[r] <= bottom_y[r]
          /\ (top_y[r] < bottom_y[r]) <=> (SheetRowPoints(r) > 0)
          /\ (r + 1) \in DOMAIN top_y => bottom_y[r] = top_y[r + 1]

\* C5 witness: a finished map of several rows holding a collapsed row, a row of
\* explicit positive height and a row of default height.
C5_Witness ==
    /\ pc = "row_y_map_done"
    /\ ws_max_row >= 3
    /\ \E r \in 1..ws_max_row : row_height[r] = Some(0) /\ top_y[r] = bottom_y[r]
    /\ \E r \in 1..ws_max_row : row_height[r] = Some(20) /\ top_y[r] < bottom_y[r]
    /\ \E r \in 1..ws_max_row : row_height[r] = None /\ top_y[r] < bottom_y[r]


\* Values of the filled column: empty, whitespace only, two texts, a number.
FillValues ==
    { NoneCell, StrCell(<<" ">>), StrCell(<<"7">>), StrCell(<<" ", "x">>), IntCell(3) }

FillCol == 2

\* any column contents over rows 1..MaxFillRows and any range, empty ranges and
\* ranges that start below row 1 included
InitFill ==
    /\ pc = "forward_fill"
    /\ ws_max_row = MaxFillRows
    /\ ws_max_column = FillCol + 1
    /\ row_height = [r \in 1..ws_max_row |-> None]
    /\ defaultRowHeight = None
    /\ \E c \in [1..ws_max_row -> FillValues] :
          cells = SparseCells([k \in (1..ws_max_row) \X {FillCol, FillCol + 1} |->
                                 IF k[2] = FillCol THEN c[k[1]]
                                 ELSE StrCell(<<"P">>)])
    /\ merged_cells = {}
    /\ GeomIdle
    /\ row = 1
    /\ SegIdle
    /\ \E a \in 1..ws_max_row, b \in 1..ws_max_row :
          call_args = [col |-> FillCol, start_row |-> a, end_row |-> b]
    /\ calls = 0
    /\ cells_at_call = <<>>
    /\ FlatIdle
    /\ LinkIdle
    /\ WbIdle
    /\ BdIdle
    /\ RunIdle

NextFill == call_forward_fill

SpecFill == InitFill /\ [][NextFill]_vars

\* Values of the target column and of its right neighbour.
FlatValues == { NoneCell, StrCell(<<" ">>), StrCell(<<"7">>) }

FlatNeighbourValues == { NoneCell, StrCell(<<"P">>) }

\* the rectangles of two cells or more inside rows a..b and columns c..d
Rectangles(a, b, c, d) ==
    { mr \in [min_row : a..b, max_row : a..b, min_col : c..d, max_col : c..d] :
        /\ mr.min_row <= mr.max_row /\ mr.min_col <= mr.max_col
        /\ (mr.min_row < mr.max_row \/ mr.min_col < mr.max_col) }

\* a merge set as a loaded sheet holds it: the rectangles are pairwise disjoint
\* and only the top-left cell of a rectangle holds a value
WellFormedMerges(ms, cs) ==
    /\ \A m1, m2 \in ms : m1 # m2 => RangeCells(m1) \cap RangeCells(m2) = {}
    /\ \A m1 \in ms : \A k \in RangeCells(m1) :
          k # <<m1.min_row, m1.min_col>> => k \notin DOMAIN cs

\* the sets of at most n pairwise disjoint rectangles of R
RECURSIVE DisjointMerges(_, _)
DisjointMerges(R, n) ==
    IF n = 0 THEN {{}}
    ELSE LET prev == DisjointMerges(R, n - 1)
         IN  prev \cup { ms \cup {m} : <<ms, m>> \in
                            { x \in prev \X R :
                                \A m2 \in x[1] : RangeCells(m2) \cap RangeCells(x[2]) = {} } }

InitFlat ==
    /\ pc = "flatten_vertical_merges"
    /\ ws_max_row = MaxFlatRows
    /\ ws_max_column = 3
    /\ row_height = [r \in 1..ws_max_row |-> None]
    /\ defaultRowHeight = None
    /\ \E c2 \in [1..ws_max_row -> FlatValues], c3 \in [1..ws_max_row -> FlatNeighbourValues] :
          cells = SparseCells([k \in (1..ws_max_row) \X {2, 3} |->
                                 IF k[2] = 2 THEN c2[k[1]] ELSE c3[k[1]]])
    /\ merged_cells \in DisjointMerges(Rectangles(1, ws_max_row, 2, 3), MaxMerges)
    /\ WellFormedMerges(merged_cells, cells)
    /\ GeomIdle
    /\ row = 1
    /\ SegIdle
    /\ CallIdle
    /\ flat_col = 2
    /\ merged_ranges = {}
    /\ ret_pc = "flatten_done"
    /\ merged_at_call = {}
    /\ LinkIdle
    /\ WbIdle
    /\ BdIdle
    /\ RunIdle

NextFlat == flatten_begin \/ flatten_step \/ flatten_return

SpecFlat == InitFlat /\ [][NextFlat]_vars

\* ------------------------------------------------------------------------
\* process_workbook on a sheet with a title row, a header row and detail rows
\* ------------------------------------------------------------------------
\* one sheet row: the values of columns 1 .. 6
SheetRow(c1, no, part, desc, qty, cat) == <<c1, no, part, desc, qty, cat>>

TextInf == StrCell(<<"i", "n", "f">>)

TextP == StrCell(<<"P">>)

TextD == StrCell(<<" ", "D">>)

TextTitle == StrCell(<<"A", "x", "l", "e">>)

\* row 1: a section title with its category, or an empty row
WbFirstRows ==
    { SheetRow(TextTitle, NoneCell, NoneCell, NoneCell, NoneCell, StrCell(<<"C", " ">>)),
      SheetRow(NoneCell, NoneCell, NoneCell, NoneCell, NoneCell, NoneCell) }

\* row 2: the header row, with or without a sequence-number heading
WbHeaderRows ==
    { SheetRow(NoneCell, StrCell(<<"N", "o", ".">>),
               StrCell(<<"P", "a", "r", "t", " ", "N", "u", "m", "b", "e", "r">>),
               NoneCell, StrCell(<<"Q", "T", "Y">>), NoneCell),
      SheetRow(NoneCell, StrCell(<<"I", "d">>),
               StrCell(<<"P", "a", "r", "t", " ", "N", "u", "m", "b", "e", "r">>),
               NoneCell, StrCell(<<"Q", "T", "Y">>), NoneCell) }

\* rows 3 ..: section titles, detail rows with numeric, textual, infinite or
\* missing sequence numbers and quantities, rows without part and description
WbDetailRows ==
    { SheetRow(NoneCell, NoneCell, NoneCell, NoneCell, NoneCell, NoneCell),
      SheetRow(TextTitle, NoneCell, NoneCell, NoneCell, NoneCell, NoneCell),
      SheetRow(TextTitle, IntCell(2), TextP, NoneCell, IntCell(4), NoneCell),
      SheetRow(TextTitle, NoneCell, TextP, NoneCell, NoneCell, NoneCell),
      SheetRow(NoneCell, IntCell(1), TextP, TextD, IntCell(4), NoneCell),
      SheetRow(NoneCell, StrCell(<<"3", ".", "0">>), NoneCell, TextD, NoneCell, NoneCell),
      SheetRow(NoneCell, NoneCell, TextP, NoneCell, NoneCell, NoneCell),
      SheetRow(NoneCell, IntCell(5), NoneCell, NoneCell, IntCell(6), NoneCell),
      SheetRow(NoneCell, IntCell(7), StrCell(<<" ">>), NoneCell, NoneCell, NoneCell),
      SheetRow(NoneCell, StrCell(<<"x">>), TextP, NoneCell, NoneCell, NoneCell),
      SheetRow(NoneCell, TextInf, TextP, NoneCell, IntCell(4), NoneCell),
      SheetRow(NoneCell, IntCell(8), TextP, NoneCell, TextInf, NoneCell) }

\* the vertical two-row merges of the sequence-number and quantity columns
\* below the header row
WbMerges ==
    { mr \in Rectangles(3, ws_max_row, 2, 5) :
        mr.min_col = mr.max_col /\ mr.min_col \in {2, 5} /\ mr.max_row = mr.min_row + 1 }

\* the embedded images: none, or one anchored at the first row
WbImages ==
    { <<>>, <<Image("OneCellAnchor", Some(0), None, None, "png")>> }

InitWb ==
    /\ pc = "compute_row_y_map"
    /\ ws_max_row = MaxWbRows
    /\ row_height = [r \in 1..ws_max_row |-> None]
    /\ defaultRowHeight = None
    /\ \E first \in WbFirstRows, head \in WbHeaderRows,
          rest \in [3..ws_max_row -> WbDetailRows] :
          cells = SparseCells([k \in (1..ws_max_row) \X (1..6) |->
                                 IF k[1] = 1 THEN first[k[2]]
                                 ELSE IF k[1] = 2 THEN head[k[2]]
                                 ELSE rest[k[1]][k[2]]])
    /\ ws_max_column = FirstIndex({c \in 1..6 : \A k \in DOMAIN cells : k[2] <= c})
    /\ merged_cells \in {{}} \cup {{mr} : mr \in WbMerges}
    /\ WellFormedMerges(merged_cells, cells)
    /\ GeomIdle
    /\ row = 1
    /\ SegIdle
    /\ CallIdle
    /\ FlatIdle
    /\ images \in WbImages
    /\ idx = 0
    /\ unmatched_images = <<>>
    /\ next_uid = 0
    /\ image_files = {}
    /\ WbIdle
    /\ BdIdle
    /\ RunIdle

NextWb ==
    \/ compute_row_y_map_step
    \/ compute_row_y_map_return
    \/ call_build_packages
    \/ build_packages_begin
    \/ build_packages_step
    \/ build_packages_return
    \/ no_packages_return
    \/ fill_packages_categories
    \/ map_images_step
    \/ map_images_return
    \/ assign_uids_step
    \/ assign_uids_return
    \/ detect_detail_columns
    \/ fallback_return
    \/ normalize_flatten_no
    \/ normalize_flatten_qty
    \/ flatten_begin
    \/ flatten_step
    \/ flatten_return
    \/ normalize_packages_begin
    \/ normalize_step
    \/ normalize_return
    \/ emit_package
    \/ emit_row
    \/ emit_rows_done
    \/ emit_return

SpecWb == InitWb /\ [][NextWb]_vars

\* ------------------------------------------------------------------------
\* image linking: link_images_to_packages on a segmented sheet, and the
\* linking loop of build_data's extract_manual_to_flat
\* ------------------------------------------------------------------------
\* all sequences over S of length at most n
SeqsUpTo(S, n) == UNION {[1..k -> S] : k \in 0..n}

\* the anchors of an embedded image: cell anchors at the first row (with
\* bytes, and with empty bytes), the last row and the row below the sheet
\* (0-based),
\* absolute anchors whose centre is
\* the top of row 2 and of row 3, an absolute anchor inside row 1 (top
\* 100000, height 50000), an absolute anchor without ext, an anchor without
\* _from whose bytes cannot be read
LinkImages ==
    {Image("OneCellAnchor", Some(r), None, None, "png") :
        r \in {0, MaxLinkRows - 1, MaxLinkRows}}
    \cup {Image("OneCellAnchor", Some(0), None, None, "empty"),
          Image("AbsoluteAnchor", None, Some(Some(0)),
                Some(Some(2 * DEFAULT_ROW_HEIGHT * EMU_PER_POINT)), "png"),
          Image("AbsoluteAnchor", None, Some(Some(100000)), Some(Some(50000)), "png"),
          Image("AbsoluteAnchor", None, Some(Some(2 * DEFAULT_ROW_HEIGHT * EMU_PER_POINT)),
                Some(Some(0)), "jpg"),
          Image("AbsoluteAnchor", None, Some(Some(0)), None, "png"),
          Image("TwoCellAnchor", None, None, None, "none")}

\* a sheet with a header row at row 2 and section titles in column 1, with
\* its embedded images, as process_workbook loads it
InitLinkPackages ==
    /\ pc = "compute_row_y_map"
    /\ ws_max_row = MaxLinkRows
    /\ ws_max_column = 2
    /\ row_height = [r \in 1..ws_max_row |-> None]
    /\ defaultRowHeight = None
    /\ \E c1 \in [1..ws_max_row -> {NoneCell, TextTitle}] :
          cells = SparseCells([k \in (1..ws_max_row) \X {1, 2} |->
                                 IF k[1] = 2
                                 THEN IF k[2] = 2 THEN StrCell(KW_part_number) ELSE NoneCell
                                 ELSE IF k[2] = 1 THEN c1[k[1]] ELSE NoneCell])
    /\ merged_cells = {}
    /\ GeomIdle
    /\ row = 1
    /\ SegIdle
    /\ CallIdle
    /\ FlatIdle
    /\ images \in SeqsUpTo(LinkImages, MaxImages)
    /\ idx = 0
    /\ unmatched_images = <<>>
    /\ next_uid = 0
    /\ image_files = {}
    /\ WbIdle
    /\ BdIdle
    /\ RunIdle

\* the rows of a sheet given to build_data: a title row, a header row, a
\* detail row
BdRows ==
    { SheetRow(TextTitle, NoneCell, NoneCell, NoneCell, NoneCell, NoneCell),
      SheetRow(NoneCell, StrCell(<<"P", "a", "r", "t", " ", "N", "u", "m", "b", "e", "r">>),
               StrCell(<<"D", "e", "s", "c", "r", "i", "p", "t", "i", "o", "n">>),
               NoneCell, NoneCell, NoneCell),
      SheetRow(NoneCell, TextP, NoneCell, NoneCell, NoneCell, NoneCell) }

\* images_info[i] as extract_images appends it: a fresh guid, the file name
\* made from it, the row (0-based, None when it could not be determined)
BdImage(guid, row_idx) ==
    [guid |-> guid, filename |-> <<guid, "jpg">>, row_idx |-> row_idx, used |-> FALSE]

\* the rows an image can be found at: None, or one of the first four rows
BdImageRows == {None} \cup {Some(r) : r \in 0..3}

\* extract_manual_to_flat after the image loop of extract_images
InitLinkSections ==
    /\ pc = "extract_images"
    /\ ws_max_row = MaxBdRows
    /\ ws_max_column = 3
    /\ row_height = [r \in 1..ws_max_row |-> None]
    /\ defaultRowHeight = None
    /\ \E rows \in [1..ws_max_row -> BdRows] :
          cells = SparseCells([k \in (1..ws_max_row) \X (1..3) |-> rows[k[1]][k[2]]])
    /\ merged_cells = {}
    /\ GeomIdle
    /\ row = 1
    /\ SegIdle
    /\ CallIdle
    /\ FlatIdle
    /\ images = <<>>
    /\ idx = 0
    /\ unmatched_images = <<>>
    /\ \E rs \in SeqsUpTo(BdImageRows, MaxImages) :
          /\ images_info = [i \in DOMAIN rs |-> BdImage(i, rs[i])]
          /\ next_uid = Len(rs)
    /\ image_files = {}
    /\ WbIdle
    /\ sections = <<>>
    /\ RunIdle

InitLink == InitLinkPackages \/ InitLinkSections

NextLink ==
    \/ compute_row_y_map_step
    \/ compute_row_y_map_return
    \/ call_build_packages
    \/ build_packages_begin
    \/ build_packages_step
    \/ build_packages_return
    \/ no_packages_return
    \/ fill_packages_categories
    \/ map_images_step
    \/ map_images_return
    \/ assign_uids_step
    \/ assign_uids_return
    \/ extract_images_return
    \/ bd_build_sections
    \/ bd_link_section
    \/ bd_link_return

SpecLink == InitLink /\ [][NextLink]_vars

\* C3: the list build_packages returns is ordered by start_row strictly ascending
\* and its sections do not overlap: A before B implies A.end_row < B.start_row.
C3_OrderedNonOverlapping ==
    pc = "packages_done" =>
        \A i, j \in DOMAIN packages :
            i < j => /\ packages[i].start_row < packages[j].start_row
                     /\ packages[i].end_row # None
                     /\ packages[i].end_row[1] < packages[j].start_row

\* C3 witness: build_packages returned three sections.
C3_Witness == pc = "packages_done" /\ Len(packages) >= 3

\* C4: the returned sections tile the sheet from the first section's start row
\* to the last row: start_row <= end_row, each end_row + 1 is the next start_row,
\* the last end_row is ws.max_row, and no section starts above header_row - 1.
C4_TilesToLastRow ==
    pc = "packages_done" =>
        /\ \A i \in DOMAIN packages :
              /\ packages[i].end_row # None
              /\ packages[i].start_row <= packages[i].end_row[1]
              /\ packages[i].start_row >= header_row - 1
              /\ i < Len(packages) =>
                    packages[i].end_row[1] + 1 = packages[i + 1].start_row
        /\ packages # <<>> => packages[Len(packages)].end_row[1] = ws_max_row

\* C4 witness: two sections were returned while a title above the row above the
\* header row was left out.
C4_Witness ==
    /\ pc = "packages_done"
    /\ Len(packages) >= 2
    /\ header_row >= 3
    /\ ~SkippedByLoop(CellValue(cells, header_row - 2, 1))

\* the cells of the sheet's grid, whatever is stored for them
GridKeys == (0..(ws_max_row + 1)) \X (1..(ws_max_column + 1))

\* blank as the fill sees it: None, or text that is empty once trimmed
IsBlankValue(v) ==
    \/ v.t = "none"
    \/ v.t = "str" /\ \A i \in DOMAIN v.s : v.s[i] \in {" ", "\t", "\n"}

\* C6: forward_fill_column_in_range is idempotent: after a second call on the
\* same column and range every cell equals what the first call left.
C6_FillIdempotent ==
    (pc = "forward_fill" /\ calls = 2) =>
        \A k \in GridKeys :
            CellValue(cells, k[1], k[2]) = CellValue(cells_at_call, k[1], k[2])

\* C6 witness: the first call filled a cell and a second call has run.
C6_Witness ==
    /\ pc = "forward_fill" /\ calls = 2
    /\ \E r \in call_args.start_row..call_args.end_row :
          /\ ~IsBlankValue(CellValue(cells, r, call_args.col))
          /\ \E q \in call_args.start_row..(r - 1) :
                /\ CellValue(cells, q, call_args.col) = CellValue(cells, r, call_args.col)
                /\ \E m \in (q + 1)..(r - 1) :
                      CellValue(cells, m, call_args.col) = CellValue(cells, r, call_args.col)

\* C7: a call never changes a cell that was non-blank before it; a cell of the
\* range with no non-blank cell at or above it inside the range keeps its blank
\* value; every changed cell lies in the range and column and receives the value
\* of the nearest non-blank cell above it within the range.
C7_FillOnlyBlanksFromAbove ==
    (pc = "forward_fill" /\ calls >= 1) =>
        \A k \in GridKeys :
            LET r      == k[1]
                c      == k[2]
                before == CellValue(cells_at_call, r, c)
                after  == CellValue(cells, r, c)
                a      == call_args.start_row
                b      == call_args.end_row
            IN  /\ ~IsBlankValue(before) => after = before
                /\ (r \in a..b /\ c = call_args.col
                      /\ \A q \in a..r : IsBlankValue(CellValue(cells_at_call, q, c)))
                       => (after = before /\ IsBlankValue(after))
                /\ after # before =>
                      /\ c = call_args.col /\ r \in a..b
                      /\ \E q \in a..(r - 1) :
                            /\ ~IsBlankValue(CellValue(cells_at_call, q, c))
                            /\ \A m \in (q + 1)..(r - 1) :
                                  IsBlankValue(CellValue(cells_at_call, m, c))
                            /\ after = CellValue(cells_at_call, q, c)

\* C7 witness: one call left a leading whitespace-only cell alone, kept a
\* non-blank cell and filled an empty and a whitespace-only cell below it.
C7_Witness ==
    /\ pc = "forward_fill" /\ calls = 1
    /\ call_args.start_row + 3 <= call_args.end_row
    /\ LET a == call_args.start_row
           c == call_args.col
       IN  /\ CellValue(cells_at_call, a, c).t = "str"
           /\ IsBlankValue(CellValue(cells, a, c))
           /\ ~IsBlankValue(CellValue(cells_at_call, a + 1, c))
           /\ CellValue(cells_at_call, a + 2, c).t = "none"
           /\ CellValue(cells_at_call, a + 3, c).t = "str"
           /\ IsBlankValue(CellValue(cells_at_call, a + 3, c))
           /\ CellValue(cells, a + 2, c) = CellValue(cells_at_call, a + 1, c)
           /\ CellValue(cells, a + 3, c) = CellValue(cells_at_call, a + 1, c)

\* the merges of ms that are vertical and confined to column col
ConfinedVertical(ms, col) ==
    { mr \in ms : mr.min_col = col /\ mr.max_col = col /\ mr.min_row < mr.max_row }

C10_NoOpWithoutColumnMerges ==
    (pc = "flatten_done" /\ ConfinedVertical(merged_at_call, flat_col) = {}) =>
        /\ merged_cells = merged_at_call
        /\ \A k \in GridKeys :
              CellValue(cells, k[1], k[2]) = CellValue(cells_at_call, k[1], k[2])

\* C10 witness: the call returned on a sheet that holds a vertical merge in
\* another column and a merge spanning the target column and its neighbour,
\* but no vertical merge confined to the target column.
C10_Witness ==
    /\ pc = "flatten_done"
    /\ ConfinedVertical(merged_at_call, flat_col) = {}
    /\ \E mr \in merged_at_call : mr.min_col = flat_col /\ mr.max_col > flat_col
    /\ \E mr \in merged_at_call : mr.min_col > flat_col /\ mr.max_row > mr.min_row

\* the cells of the sheet's used range
WbKeys == (1..ws_max_row) \X (1..ws_max_column)

\* the forward-fill stage of normalize_merged_detail_cells_for_all_packages
\* has begun on the detail-columns path
InFillStage ==
    /\ detail_cols # None
    /\ pc \in {"normalize_loop", "emit_packages", "emit_rows", "returned", "raised"}

\* the cells whose value differs from the one they held when the forward-fill
\* stage began
FilledCells ==
    {k \in WbKeys : CellValue(cells, k[1], k[2]) # CellValue(cells_before_fill, k[1], k[2])}

\* C8: during normalize_merged_detail_cells_for_all_packages the forward-fill
\* stage never carries a value across a section boundary: every cell it
\* changes was blank, is a sequence-number or quantity cell inside the
\* data-row range of one section (which lies within that section's rows), and
\* receives the non-blank value of a cell above it in the same column and the
\* same data-row range; cells outside every data-row range keep their value.
C8_FillStaysInsideDataRange ==
    InFillStage =>
        /\ \A i \in DOMAIN data_ranges :
              /\ packages[i + 1].start_row <= data_ranges[i][1]
              /\ data_ranges[i][2] <= packages[i + 1].end_row[1]
        /\ \A k \in FilledCells :
              /\ k[2] \in {detail_cols[1].col_no, detail_cols[1].col_qty}
              /\ IsBlankValue(CellValue(cells_before_fill, k[1], k[2]))
              /\ \E i \in DOMAIN data_ranges :
                    /\ data_ranges[i][1] <= k[1] /\ k[1] <= data_ranges[i][2]
                    /\ \E q \in data_ranges[i][1]..(k[1] - 1) :
                          /\ NonBlank(CellValue(cells_before_fill, q, k[2]))
                          /\ CellValue(cells, k[1], k[2]) =
                                CellValue(cells_before_fill, q, k[2])

\* C8 witness: the stage is over, it filled a cell of one section, and the
\* next section's data rows start with a blank sequence number that stayed
\* blank although the row just above it, in the previous section, holds one.
C8_Witness ==
    /\ pc = "emit_packages"
    /\ detail_cols # None
    /\ FilledCells # {}
    /\ \E i, j \in DOMAIN data_ranges :
          /\ i < j
          /\ data_ranges[j][1] = data_ranges[i][2] + 1
          /\ \E k \in FilledCells : data_ranges[i][1] <= k[1] /\ k[1] <= data_ranges[i][2]
          /\ NonBlank(CellValue(cells, data_ranges[i][2], detail_cols[1].col_no))
          /\ ~NonBlank(CellValue(cells, data_ranges[j][1], detail_cols[1].col_no))

\* process_workbook has ended on the detail-columns path, by returning or by
\* an exception
DetailPathEnded == detail_cols # None /\ pc \in {"returned", "raised"}

\* a record built from sheet row r is among the returned rows
Emitted(r) ==
    /\ result # None
    /\ \E j \in DOMAIN result[1] : result[1][j].row = r

\* the rows of all data-row ranges
DataRangeRows ==
    UNION {data_ranges[i][1]..data_ranges[i][2] : i \in DOMAIN data_ranges}

\* C1: in process_workbook on the detail-columns path, for every section with
\* a data-row range and every row in it, a record is emitted for the row if
\* and only if its part-identifier or description cell is non-blank and its
\* sequence-number cell, after merge repair and forward-fill, coerces to an
\* integer with to_int_or_none; no record is emitted for a row outside every
\* data-row range.
C1_EmittedIffPartAndSequence ==
    DetailPathEnded =>
        /\ \A r \in DataRangeRows :
              Emitted(r) <=>
                 /\ HasPartOrDesc(cells, r, detail_cols[1])
                 /\ to_int_or_none(CellValue(cells, r, detail_cols[1].col_no)).kind = "int"
        /\ \A r \in (1..ws_max_row) \ DataRangeRows : ~Emitted(r)

\* C1 witness: process_workbook ended without returning rows although a row of
\* a data-row range holds a part identifier and an integer sequence number.
C1_Witness ==
    /\ DetailPathEnded
    /\ pc = "raised"
    /\ \E r \in DataRangeRows :
          /\ HasPartOrDesc(cells, r, detail_cols[1])
          /\ to_int_or_none(CellValue(cells, r, detail_cols[1].col_no)).kind = "int"

\* the biconditional of C1 in the runs that return
C1_HoldsWhenReturned ==
    pc = "returned" => C1_EmittedIffPartAndSequence

\* link_images_to_packages has returned
PackagesLinked == pc = "detect_detail_columns"

\* the linking loop of extract_manual_to_flat is over
SectionsLinked == pc = "sections_linked"

\* the images (indices from 0) linked to package p, cell-anchored and
\* absolute-anchored links together
LinkedToPackage(p) ==
    {i \in 0..(Len(images) - 1) :
        \/ \E j \in DOMAIN packages[p].images : packages[p].images[j] = i
        \/ \E j \in DOMAIN packages[p].abs_images : packages[p].abs_images[j] = i}

\* the images that resolve to package p
ResolveToPackage(p) ==
    {i \in 0..(Len(images) - 1) : ResolvedPackage(packages, images[i + 1]) = p}

\* the images (positions in images_info) linked to section s
LinkedToSection(s) ==
    {i \in DOMAIN images_info : sections[s].package_guid = Some(images_info[i].guid)}

\* the images whose row lies in the span of section s
ResolveToSection(s) ==
    {i \in DOMAIN images_info : bd_in_span(sections[s], images_info[i])}

\* every package has at most one linked image, every image is linked to at
\* most one package, and the image linked is the first that resolves to it
PackageLinksFirstResolving ==
    /\ \A p \in DOMAIN packages :
          /\ Len(packages[p].images) + Len(packages[p].abs_images) <= 1
          /\ LinkedToPackage(p) =
                IF ResolveToPackage(p) = {} THEN {} ELSE {MinOf(ResolveToPackage(p))}
    /\ \A p, q \in DOMAIN packages :
          p # q => LinkedToPackage(p) \cap LinkedToPackage(q) = {}

\* every section has at most one linked image and every image is linked to at
\* most one section
SectionLinksAtMostOne ==
    /\ \A s \in DOMAIN sections : Cardinality(LinkedToSection(s)) <= 1
    /\ \A s, t \in DOMAIN sections :
          s # t => LinkedToSection(s) \cap LinkedToSection(t) = {}

\* C2 as stated: after image linking every section has at most one linked
\* image, every image is linked to at most one section, and the image linked
\* to a section is the first one, in iteration order, that resolves to it.
C2_LinkedIsFirstResolving ==
    /\ PackagesLinked => PackageLinksFirstResolving
    /\ SectionsLinked =>
          /\ SectionLinksAtMostOne
          /\ \A s \in DOMAIN sections : \A i \in LinkedToSection(s) :
                i \in ResolveToSection(s) /\ i = MinOf(ResolveToSection(s))

\* the images in the span of section s that no earlier section took
FreeForSection(s) ==
    {i \in ResolveToSection(s) : \A t \in 1..(s - 1) : i \notin LinkedToSection(t)}

\* C2 amended: after image linking every section has at most one linked image
\* and every image is linked to at most one section; the image linked to a
\* section is the first one, in iteration order, that resolves to it and is
\* not linked to an earlier section (in link_images_to_packages an image
\* resolves to one package only, so there it is the first that resolves).
C2_LinkedIsFirstResolvingNotTaken ==
    /\ PackagesLinked => PackageLinksFirstResolving
    /\ SectionsLinked =>
          /\ SectionLinksAtMostOne
          /\ \A s \in DOMAIN sections :
                LinkedToSection(s) =
                   IF FreeForSection(s) = {} THEN {} ELSE {MinOf(FreeForSection(s))}

\* C2 witness: the linking loop is over, an image lies in the spans of two
\* sections and is linked to the first of them, and the second one is linked
\* to a later image of its span.
C2_Witness ==
    /\ SectionsLinked
    /\ \E s, t \in DOMAIN sections : \E i, j \in DOMAIN images_info :
          /\ s < t /\ i < j
          /\ i \in ResolveToSection(s) \cap ResolveToSection(t)
          /\ i \in LinkedToSection(s)
          /\ j \in LinkedToSection(t)

\* ------------------------------------------------------------------------
\* process_workbook on a sheet with one section, one header row and three
\* detail rows, two of them sharing a vertical merge in the quantity column
\* ------------------------------------------------------------------------
\* the sequence numbers of the detail rows: integers, as numbers or as text
E2eSequenceValues == {IntCell(1), StrCell(<<"2", ".", "0">>)}

\* the value of the merge's top cell
E2eMergeTopValues ==
    {IntCell(4), StrCell(<<" ", "7">>), StrCell(<<"x">>), StrCell(<<" ">>), NoneCell, TextInf}

\* the quantity of the detail row outside the merge
E2eOtherQuantities == {NoneCell, IntCell(6)}

\* the sheet: title in A1, header row 2, detail rows 3 .. 5 with a part
\* number or a description, the merge on rows `top`, `top + 1` of column 5
E2eSheet(head, seq, top, top_value, other) ==
    SparseCells([k \in (1..5) \X (1..6) |->
        IF k[1] = 1 THEN (IF k[2] = 1 THEN TextTitle ELSE NoneCell)
        ELSE IF k[1] = 2 THEN head[k[2]]
        ELSE IF k[2] = 2 THEN seq[k[1]]
        ELSE IF k[2] = 3 THEN (IF k[1] = 4 THEN NoneCell ELSE TextP)
        ELSE IF k[2] = 4 THEN (IF k[1] = 4 THEN TextD ELSE NoneCell)
        ELSE IF k[2] = 5
        THEN (IF k[1] = top THEN top_value
              ELSE IF k[1] = top + 1 THEN NoneCell ELSE other)
        ELSE NoneCell])

InitE2e ==
    /\ pc = "compute_row_y_map"
    /\ ws_max_row = 5
    /\ row_height = [r \in 1..ws_max_row |-> None]
    /\ defaultRowHeight = None
    /\ \E head \in WbHeaderRows, seq \in [3..5 -> E2eSequenceValues], top \in {3, 4},
          top_value \in E2eMergeTopValues, other \in E2eOtherQuantities :
          /\ cells = E2eSheet(head, seq, top, top_value, other)
          /\ merged_cells = {[min_row |-> top, max_row |-> top + 1,
                              min_col |-> 5, max_col |-> 5]}
    /\ ws_max_column = 5
    /\ GeomIdle
    /\ row = 1
    /\ SegIdle
    /\ CallIdle
    /\ FlatIdle
    /\ images \in WbImages
    /\ idx = 0
    /\ unmatched_images = <<>>
    /\ next_uid = 0
    /\ image_files = {}
    /\ WbIdle
    /\ BdIdle
    /\ RunIdle

SpecE2e == InitE2e /\ [][NextWb]_vars

\* the vertical merge the quantity column held when it was flattened
QuantityMerges == {mr \in merged_at_call : IsVerticalInColumn(mr, 5)}

\* the returned records built from sheet row r
RecordsOfRow(r) == {j \in DOMAIN result[1] : result[1][j].row = r}

\* C11: end to end, for a sheet with one section, one header row and three
\* data rows with integer sequence numbers, two consecutive ones sharing a
\* 2-row vertical merge in the quantity column, process_workbook emits exactly
\* 3 records, and the records of the two merged rows carry the same quantity,
\* the (coerced) value of the merge's top cell.
C11_ThreeRecordsMergedQuantity ==
    DetailPathEnded =>
        /\ result # None
        /\ Len(result[1]) = 3
        /\ \A mr \in QuantityMerges : \A r \in mr.min_row..mr.max_row :
              /\ RecordsOfRow(r) # {}
              /\ \A j \in RecordsOfRow(r) :
                    result[1][j].qty =
                       IntOrNoneCell(to_int_or_none(CellValue(cells_at_call, mr.min_row, 5)))

\* C11 witness: process_workbook ended by an exception on such a sheet, whose
\* merge's top cell holds the text inf.
C11_Witness ==
    /\ DetailPathEnded
    /\ pc = "raised"
    /\ \E mr \in QuantityMerges : CellValue(cells_at_call, mr.min_row, 5) = TextInf

\* the statement of C11 in the runs that return and whose merge has a
\* non-blank top cell (a blank one leaves the merged rows to forward fill)
C11_HoldsWhenReturned ==
    (/\ pc = "returned"
     /\ \A mr \in QuantityMerges : NonBlank(CellValue(cells_at_call, mr.min_row, 5)))
        => C11_ThreeRecordsMergedQuantity

\* ------------------------------------------------------------------------
\* Segmentation: which first-column cells open a section
\* ------------------------------------------------------------------------
\* the rows the segmentation loop scans
ScannedRows == IF header_row <= 1 THEN {} ELSE (header_row - 1)..ws_max_row

\* the trimmed text of a cell value
TrimmedText(v) == py_strip(py_str(v))

\* the trimmed text holds a header keyword
IsHeaderToken(v) == v.t # "none" /\ HasHeaderKeyword(py_lower(TrimmedText(v)))

\* the trimmed lowercase text is a spreadsheet error token
IsErrorToken(v) == v.t # "none" /\ py_lower(TrimmedText(v)) \in EXCLUDED_PACKAGE_TOKENS

\* a first-column cell that is non-blank and neither a header nor an error token
IsSectionTitle(v) == NonBlank(v) /\ ~IsHeaderToken(v) /\ ~IsErrorToken(v)

\* the indices of the returned sections that start at row r
PackagesStartingAt(r) == {i \in DOMAIN packages : packages[i].start_row = r}

\* C12: every scanned first-column cell that is non-blank and neither a header
\* token nor an error token opens a section with start_row = its row and
\* name = its trimmed text, and closes the section open before it, if any, with
\* end_row = its row - 1.
C12_TitleClosesAndOpens ==
    pc = "packages_done" =>
        \A r \in ScannedRows :
            IsSectionTitle(CellValue(cells, r, 1)) =>
                \E i \in PackagesStartingAt(r) :
                    /\ packages[i].name = TrimmedText(CellValue(cells, r, 1))
                    /\ i > 1 => packages[i - 1].end_row = Some(r - 1)

\* C12 witness: a title in the row above the header row and the next title two
\* rows below it, written with surrounding blanks and capitals, gave a section
\* closed on the row between them.
C12_Witness ==
    /\ pc = "packages_done"
    /\ header_row >= 2
    /\ \E i \in DOMAIN packages :
          /\ i > 1
          /\ packages[i - 1].start_row = header_row - 1
          /\ packages[i - 1].end_row = Some(header_row)
          /\ packages[i].start_row = header_row + 1
          /\ CellValue(cells, header_row + 1, 1).s # packages[i].name
          /\ py_lower(packages[i].name) # packages[i].name

\* the rows strictly inside a returned section: below its start, up to its end
InsideRows == {r \in 1..ws_max_row : \E i \in DOMAIN packages :
                  /\ packages[i].start_row < r
                  /\ packages[i].end_row # None /\ r <= packages[i].end_row[1]}

\* C13: a scanned first-column cell whose trimmed text is a header token or
\* whose trimmed lowercase text is an error token neither closes nor opens a
\* section: no section starts at its row and none ends on the row above it;
\* hence no returned section is named by a header token or an error token.
C13_TokensAreIgnored ==
    pc = "packages_done" =>
        /\ \A r \in ScannedRows :
              LET v == CellValue(cells, r, 1)
              IN  (IsHeaderToken(v) \/ IsErrorToken(v)) =>
                     /\ PackagesStartingAt(r) = {}
                     /\ \A i \in DOMAIN packages : packages[i].end_row # Some(r - 1)
        /\ \A i \in DOMAIN packages :
              /\ ~HasHeaderKeyword(py_lower(packages[i].name))
              /\ py_lower(packages[i].name) \notin EXCLUDED_PACKAGE_TOKENS

\* C13 witness: a returned section holds, below its title, a first-column
\* header token and a first-column error token.
C13_Witness ==
    /\ pc = "packages_done"
    /\ \E r, q \in InsideRows :
          /\ IsHeaderToken(CellValue(cells, r, 1))
          /\ IsErrorToken(CellValue(cells, q, 1))

\* C14: a scanned first-column cell that is blank (empty, or text that is
\* empty once trimmed) neither closes nor opens a section: no section starts
\* at its row and none ends on the row above it; consequently every returned
\* section has a non-empty name.
C14_BlankIsIgnored ==
    pc = "packages_done" =>
        /\ \A r \in ScannedRows :
              ~NonBlank(CellValue(cells, r, 1)) =>
                  /\ PackagesStartingAt(r) = {}
                  /\ \A i \in DOMAIN packages : packages[i].end_row # Some(r - 1)
        /\ \A i \in DOMAIN packages : packages[i].name # <<>>

\* C14 witness: a section was returned for a first-column cell holding blanks
\* only, and the section open above it was closed there.
C14_Witness ==
    /\ pc = "packages_done"
    /\ \E i \in DOMAIN packages :
          /\ i > 1
          /\ packages[i].name = <<>>
          /\ CellValue(cells, packages[i].start_row, 1).t = "str"
          /\ packages[i - 1].end_row = Some(packages[i].start_row - 1)

\* the statement of C14 for the cells that are empty (None)
C14_EmptyCellIsIgnored ==
    pc = "packages_done" =>
        \A r \in ScannedRows :
            CellValue(cells, r, 1).t = "none" =>
                /\ PackagesStartingAt(r) = {}
                /\ \A i \in DOMAIN packages : packages[i].end_row # Some(r - 1)

\* the rows holding, in some column, text that contains a header keyword
\* case-insensitively
HeaderRows ==
    {r \in 1..ws_max_row : \E c \in 1..ws_max_column :
        LET v == CellValue(cells, r, c)
        IN  v.t = "str" /\ \E kw \in HEADER_KEYWORDS : py_in(kw, py_lower(v.s))}

\* the sheet's header row: the topmost of them
TopHeaderRow == CHOOSE r \in HeaderRows : \A q \in HeaderRows : r <= q

\* a first-column cell that qualifies as a section title for the loop: it holds
\* a value whose trimmed text is neither a header token nor an error token
Qualifies(v) == v.t # "none" /\ ~IsHeaderToken(v) /\ ~IsErrorToken(v)

\* the rows from the one above row h to the last row that hold a qualifying
\* first-column cell
QualifyingRowsFromAbove(h) ==
    {r \in 1..ws_max_row : r >= h - 1 /\ Qualifies(CellValue(cells, r, 1))}

\* C15 as stated: build_packages returns zero sections if and only if the
\* sheet has no header row or no qualifying first-column cell lies in the rows
\* from one above the header row to the last row; so a header row at any row
\* index with a qualifying cell at or below the row above it gives a section.
C15_ZeroSectionsIff ==
    pc = "packages_done" =>
        (packages = <<>> <=>
            \/ HeaderRows = {}
            \/ QualifyingRowsFromAbove(TopHeaderRow) = {})

\* C15 amended: build_packages returns zero sections if and only if the sheet
\* has no header row, or its header row is row 1, or no qualifying
\* first-column cell lies in the rows from one above the header row to the
\* last row.
C15_ZeroSectionsIffOrHeaderInRowOne ==
    pc = "packages_done" =>
        (packages = <<>> <=>
            \/ HeaderRows = {}
            \/ TopHeaderRow = 1
            \/ QualifyingRowsFromAbove(TopHeaderRow) = {})

\* C15 witness: build_packages returned zero sections for a sheet whose header
\* row is row 1 and which has a qualifying first-column cell below it.
C15_Witness ==
    /\ pc = "packages_done"
    /\ packages = <<>>
    /\ HeaderRows # {}
    /\ TopHeaderRow = 1
    /\ \E r \in QualifyingRowsFromAbove(TopHeaderRow) : r > 1

\* ------------------------------------------------------------------------
\* process_workbook up to detect_detail_columns, on sheets whose
\* sequence-number headings lie in any row and column
\* ------------------------------------------------------------------------
\* the widest sheet
MaxDetectCols == 9

\* headings: two that match, one that does not
DetectHeadings ==
    { StrCell(<<" ", "N", "o", ".">>), StrCell(<<"#">>), StrCell(<<"N", "o", "s">>) }

\* the sheet: title in A1, a header token in A2, a second title in A3 or not,
\* a heading at k1, a second heading at k2 or not, and a filler cell in column
\* m of row 4 or not (m = 0)
DetectSheet(second, k1, h1, k2, m) ==
    SparseCells([k \in (1..4) \X (1..MaxDetectCols) |->
        IF k = <<1, 1>> THEN TextTitle
        ELSE IF k = <<2, 1>> THEN StrCell(<<"Q", "t", "y">>)
        ELSE IF k = <<3, 1>> THEN second
        ELSE IF k = k1 THEN h1
        ELSE IF k = k2 THEN StrCell(<<"n", "o", ":">>)
        ELSE IF k = <<4, m>> THEN StrCell(<<"x">>)
        ELSE NoneCell])

InitDetect ==
    /\ pc = "compute_row_y_map"
    /\ ws_max_row = 4
    /\ row_height = [r \in 1..ws_max_row |-> None]
    /\ defaultRowHeight = None
    /\ \E second \in {NoneCell, TextTitle}, k1 \in (1..4) \X (2..7), h1 \in DetectHeadings,
          k2 \in {<<0, 0>>} \cup ((2..3) \X (2..7)), m \in {0} \cup (4..MaxDetectCols) :
          cells = DetectSheet(second, k1, h1, k2, m)
    /\ ws_max_column = FirstIndex({c \in 1..MaxDetectCols : \A k \in DOMAIN cells : k[2] <= c})
    /\ merged_cells = {}
    /\ GeomIdle
    /\ row = 1
    /\ SegIdle
    /\ CallIdle
    /\ FlatIdle
    /\ images = <<Image("OneCellAnchor", Some(0), None, None, "png")>>
    /\ idx = 0
    /\ unmatched_images = <<>>
    /\ next_uid = 0
    /\ image_files = {}
    /\ WbIdle
    /\ BdIdle
    /\ RunIdle

NextDetect ==
    \/ compute_row_y_map_step
    \/ compute_row_y_map_return
    \/ call_build_packages
    \/ build_packages_begin
    \/ build_packages_step
    \/ build_packages_return
    \/ no_packages_return
    \/ fill_packages_categories
    \/ map_images_step
    \/ map_images_return
    \/ assign_uids_step
    \/ assign_uids_return
    \/ detect_detail_columns

SpecDetect == InitDetect /\ [][NextDetect]_vars

\* detect_detail_columns has returned
Detected == pc \in {"fallback", "normalize"}

\* the sheet's column count: the largest column holding a value
SheetColumnCount == MaxOf({k[2] : k \in DOMAIN cells})

\* the cells of the first section's rows, columns 2 .. 6, holding text whose
\* trimmed value is # or, case-insensitively, no / no. / no# / no:
WindowHeadings ==
    {k \in (packages[1].start_row..packages[1].end_row[1]) \X (2..6) :
        IsNoHeader(CellValue(cells, k[1], k[2]))}

\* the first of them, rows top to bottom and columns left to right in a row
FirstWindowHeading ==
    CHOOSE k \in WindowHeadings :
        \A q \in WindowHeadings : k[1] < q[1] \/ (k[1] = q[1] /\ k[2] <= q[2])

\* the roles a heading in column c gives
RolesAt(c) == [col_no |-> c, col_part |-> c + 1, col_desc |-> c + 2, col_qty |-> c + 3]

\* C16: the first heading of the window (first section's rows top to bottom,
\* columns 2 .. 6 left to right), at column c, gives the roles (c, c + 1,
\* c + 2, c + 3), and detection fails exactly when the window holds no heading
\* or c + 3 exceeds the sheet's column count.
C16_RolesFromFirstHeading ==
    Detected =>
        /\ detail_cols # None => /\ WindowHeadings # {}
                                 /\ detail_cols[1] = RolesAt(FirstWindowHeading[2])
        /\ detail_cols = None <=>
              \/ WindowHeadings = {}
              \/ FirstWindowHeading[2] + 3 > SheetColumnCount

\* C16 witness: detection returned roles whose quantity column lies beyond
\* the sheet's last column.
C16_Witness ==
    /\ Detected
    /\ detail_cols # None
    /\ detail_cols[1].col_qty > SheetColumnCount

\* the statement of C16 with the column count as ws.max_column gives it when
\* it is tested, after the reads of columns 2 .. 6 created their cells
C16_RolesWithColumnCountAfterReads ==
    Detected =>
        /\ detail_cols # None => /\ WindowHeadings # {}
                                 /\ detail_cols[1] = RolesAt(FirstWindowHeading[2])
        /\ detail_cols = None <=>
              \/ WindowHeadings = {}
              \/ FirstWindowHeading[2] + 3 > Max(SheetColumnCount, 6)

\* ------------------------------------------------------------------------
\* data-row ranges
\* ------------------------------------------------------------------------
\* the data-row ranges have all been computed
RangesComputed ==
    detail_cols # None /\ pc \in {"emit_packages", "emit_rows", "returned", "raised"}

\* the rows of section i whose part-identifier or description cell is non-blank
RowsWithDetail(i) ==
    {r \in packages[i].start_row..packages[i].end_row[1] :
        \/ NonBlank(CellValue(cells, r, detail_cols[1].col_part))
        \/ NonBlank(CellValue(cells, r, detail_cols[1].col_desc))}

\* C17: for every section the range found is (m, M), the smallest and largest
\* row of [start_row, end_row] whose part-identifier or description cell is
\* non-blank; there is no range exactly when the section has no such row, and
\* such a section contributes no record.
C17_RangeIsMinMaxOfDetailRows ==
    RangesComputed =>
        \A i \in DOMAIN packages :
            /\ (i - 1) \in DOMAIN data_ranges <=> RowsWithDetail(i) # {}
            /\ RowsWithDetail(i) # {} =>
                  data_ranges[i - 1] = <<MinOf(RowsWithDetail(i)), MaxOf(RowsWithDetail(i))>>
            /\ RowsWithDetail(i) = {} =>
                  \A j \in DOMAIN rows_for_excel :
                      rows_for_excel[j].row \notin
                          packages[i].start_row..packages[i].end_row[1]

\* C17 witness: process_workbook returned records for a sheet with a section
\* whose range spans several rows and ends on a description-only row, and a
\* section without any range.
C17_Witness ==
    /\ RangesComputed
    /\ pc = "returned"
    /\ result # None /\ result[1] # <<>>
    /\ \E i, j \in DOMAIN packages :
          /\ RowsWithDetail(j) = {}
          /\ (i - 1) \in DOMAIN data_ranges
          /\ data_ranges[i - 1][1] < data_ranges[i - 1][2]
          /\ ~NonBlank(CellValue(cells, data_ranges[i - 1][2], detail_cols[1].col_part))

\* ------------------------------------------------------------------------
\* absolute-anchored images
\* ------------------------------------------------------------------------
\* the images (indices from 0) with an absolute anchor holding pos.y and ext.cy
AbsoluteImages ==
    {i \in 0..(Len(images) - 1) :
        /\ images[i + 1].tname = "AbsoluteAnchor"
        /\ images[i + 1].pos # None /\ images[i + 1].pos[1] # None
        /\ images[i + 1].ext # None /\ images[i + 1].ext[1] # None}

\* twice the centre y + h / 2 of absolute image i
TwiceCentre(i) == 2 * images[i + 1].pos[1][1] + images[i + 1].ext[1][1]

\* the sections whose [y_start, y_end) holds the centre of image i
SectionsHoldingCentre(i) ==
    {p \in DOMAIN packages :
        /\ 2 * packages[p].y_start[1] <= TwiceCentre(i)
        /\ TwiceCentre(i) < 2 * packages[p].y_end[1]}

\* the indices in the returned unmatched list
Unmatched == {unmatched_images[j] : j \in DOMAIN unmatched_images}

\* C18: an absolute-anchored image with top y and height h is resolved by its
\* centre y + h / 2 against the sections' coordinates: at most one section S
\* has S.y_start <= centre < S.y_end, the image is linked to no other section,
\* it is linked to S unless an earlier image was, and when no section holds
\* the centre it is linked to none and listed as unmatched.
C18_AbsoluteResolvesByCentre ==
    PackagesLinked =>
        \A i \in AbsoluteImages :
            /\ Cardinality(SectionsHoldingCentre(i)) <= 1
            /\ \A p \in DOMAIN packages :
                  i \in LinkedToPackage(p) =>
                      /\ p \in SectionsHoldingCentre(i)
                      /\ packages[p].abs_images = <<i>>
            /\ \A p \in SectionsHoldingCentre(i) :
                  /\ i \notin Unmatched
                  /\ \/ i \in LinkedToPackage(p)
                     \/ \E j \in LinkedToPackage(p) : j < i
            /\ SectionsHoldingCentre(i) = {} => i \in Unmatched

\* C18 witness: an image with top 100000 and height 50000 was linked to the
\* section starting at y 0, and an image whose centre is that section's y_end
\* was linked to the next section.
C18_Witness ==
    /\ PackagesLinked
    /\ Len(packages) >= 2
    /\ packages[1].y_start = Some(0)
    /\ \E i, j \in AbsoluteImages :
          /\ images[i + 1].pos = Some(Some(100000))
          /\ images[i + 1].ext = Some(Some(50000))
          /\ i \in LinkedToPackage(1)
          /\ TwiceCentre(j) = 2 * packages[1].y_end[1]
          /\ j \in LinkedToPackage(2)

\* ------------------------------------------------------------------------
\* two images resolving to the same section
\* ------------------------------------------------------------------------
\* the sections to which two images or more resolve
SharedSections == {p \in DOMAIN packages : Cardinality(ResolveToPackage(p)) >= 2}

\* the images after the first, in document order, that resolve to section p
LaterResolving(p) == ResolveToPackage(p) \ {MinOf(ResolveToPackage(p))}

\* the images linked to some section
LinkedImages == UNION {LinkedToPackage(p) : p \in DOMAIN packages}

\* C19 as stated: when two images resolve to the same section, only the first
\* of them in document order is linked, and the index of the second one is in
\* the unmatched list that map_images_to_packages returns.
C19_SecondIsUnmatched ==
    PackagesLinked =>
        \A p \in SharedSections :
            /\ LinkedToPackage(p) = {MinOf(ResolveToPackage(p))}
            /\ \A j \in LaterResolving(p) : j \notin LinkedImages /\ j \in Unmatched

\* C19 amended: when two images resolve to the same section, only the first
\* of them in document order is linked; the second one is linked to no
\* section and its index is not in the unmatched list, which holds exactly
\* the images that resolve to no section.
C19_SecondIsIgnored ==
    PackagesLinked =>
        /\ \A p \in SharedSections :
              /\ LinkedToPackage(p) = {MinOf(ResolveToPackage(p))}
              /\ \A j \in LaterResolving(p) : j \notin LinkedImages /\ j \notin Unmatched
        /\ \A i \in 0..(Len(images) - 1) :
              i \in Unmatched <=> ResolvedPackage(packages, images[i + 1]) = 0

\* C19 witness: an absolute-anchored image and a cell-anchored image after it
\* resolve to the same section, which holds the first of them only.
C19_Witness ==
    /\ PackagesLinked
    /\ \E p \in SharedSections : \E j \in LaterResolving(p) :
          /\ j \notin AbsoluteImages
          /\ packages[p].abs_images = <<MinOf(ResolveToPackage(p))>>
          /\ packages[p].images = <<>>

\* ------------------------------------------------------------------------
\* process_workbook when the detail columns are not detected
\* ------------------------------------------------------------------------
\* process_workbook has ended on a sheet with sections whose detail columns
\* were not detected
FallbackEnded ==
    /\ pc \in {"returned", "raised"}
    /\ packages # <<>>
    /\ detail_cols = None

\* the text a record carries for an optional text of its section
TextOrBlank(x, text) == (x = None /\ text = <<>>) \/ x = Some(text)

\* C20: when column-role detection fails for a sheet with n sections,
\* process_workbook returns (it does not end by an exception) exactly n
\* records, one per section in section order, each with the section's id,
\* image path, name and category, and with sequence number, part id,
\* description and quantity blank.
C20_OneBlankRecordPerSection ==
    FallbackEnded =>
        /\ pc = "returned"
        /\ result # None
        /\ Len(result[1]) = Len(packages)
        /\ \A i \in DOMAIN packages :
              LET rec == result[1][i]
              IN  /\ packages[i].uid # None /\ rec.uid = packages[i].uid
                  /\ TextOrBlank(packages[i].image_filename, rec.image_filename)
                  /\ rec.pkg_name = packages[i].name
                  /\ TextOrBlank(packages[i].category, rec.category)
                  /\ rec.no = StrCell(<<>>) /\ rec.part = <<>>
                  /\ rec.desc = <<>> /\ rec.qty = StrCell(<<>>)

\* C20 witness: process_workbook returned the records of two sections, the
\* first with a saved image and a category, for a sheet without a
\* sequence-number heading whose rows hold part numbers.
C20_Witness ==
    /\ FallbackEnded
    /\ pc = "returned"
    /\ Len(packages) >= 2
    /\ packages[1].image_filename # None
    /\ packages[1].category # None /\ packages[1].category # Some(<<>>)
    /\ \E r \in 3..ws_max_row : NonBlank(CellValue(cells, r, 3))

\* ------------------------------------------------------------------------
\* quantity coercion
\* ------------------------------------------------------------------------
\* the rows of the data-row ranges that satisfy the emission condition
EmissionRows ==
    {r \in DataRangeRows :
        /\ HasPartOrDesc(cells, r, detail_cols[1])
        /\ to_int_or_none(CellValue(cells, r, detail_cols[1].col_no)).kind = "int"}

\* the quantity a record carries for a quantity cell: the integer it converts
\* to, absent for any other value
QuantityFor(v) ==
    IF to_int_or_none(v).kind = "int" THEN IntCell(to_int_or_none(v).n) ELSE NoneCell

\* C21: for every row that satisfies the emission condition a record is
\* emitted whatever the quantity cell holds; its quantity is the coerced
\* integer when the cell converts to an integer and absent otherwise.
C21_QuantityNeverExcludesRow ==
    DetailPathEnded =>
        \A r \in EmissionRows :
            /\ Emitted(r)
            /\ \A j \in DOMAIN result[1] :
                  result[1][j].row = r =>
                      result[1][j].qty =
                          QuantityFor(CellValue(cells, r, detail_cols[1].col_qty))

\* C21 witness: process_workbook ended by an exception on a row that satisfies
\* the emission condition and whose quantity cell holds the text inf.
C21_Witness ==
    /\ DetailPathEnded
    /\ pc = "raised"
    /\ row \in EmissionRows
    /\ CellValue(cells, row, detail_cols[1].col_qty) = TextInf

\* the statement of C21 in the runs that return
C21_HoldsWhenReturned ==
    pc = "returned" => C21_QuantityNeverExcludesRow

\* ------------------------------------------------------------------------
\* identifiers and image files after link_images_to_packages
\* ------------------------------------------------------------------------
\* the bytes get_image_bytes returns for the image linked to package p,
\* "none" when no image is linked to it
LinkedBytes(p) ==
    IF LinkedToPackage(p) = {} THEN "none"
    ELSE images[MinOf(LinkedToPackage(p)) + 1].data

\* the packages the loop of assign_uids_and_save_images has handled
HandledPackages ==
    IF pc = "assign_uids_and_save_images" THEN 1..idx
    ELSE IF PackagesLinked THEN DOMAIN packages
    ELSE {}

\* C24: after link_images_to_packages every section has a non-null identifier
\* and distinct sections have different identifiers; a section has an image
\* file name only if an image was linked to it, its bytes were obtained and
\* the file was written; a section whose image bytes could not be obtained
\* keeps its identifier and has no file name; the loop handles every section
\* whatever happened to the sections before it.
C24_EverySectionHasIdentifier ==
    /\ \A p \in HandledPackages :
          /\ packages[p].uid # None
          /\ \A q \in HandledPackages : p # q => packages[p].uid # packages[q].uid
          /\ packages[p].image_filename # None =>
                /\ LinkedToPackage(p) # {}
                /\ LinkedBytes(p) \notin {"none", "empty"}
                /\ packages[p].image_filename[1] \in image_files
                /\ packages[p].image_filename[1][1] = packages[p].uid[1]
          /\ (LinkedToPackage(p) # {} /\ LinkedBytes(p) \in {"none", "empty"}) =>
                packages[p].image_filename = None
    /\ pc = "assign_uids_and_save_images" => idx <= Len(packages)

\* C24 witness: link_images_to_packages has returned for two sections; the
\* image linked to the first one has no bytes, so the section has an
\* identifier and no file name, and the section after it has its image file.
C24_Witness ==
    /\ PackagesLinked
    /\ \E p, q \in DOMAIN packages :
          /\ p < q
          /\ LinkedToPackage(p) # {} /\ LinkedBytes(p) = "empty"
          /\ packages[p].uid # None /\ packages[p].image_filename = None
          /\ packages[q].image_filename # None

\* C24 witness of a failed write: the image linked to a section has bytes, the
\* section has its identifier and no file name, and a later section has an
\* identifier too.
C24_WriteFailed ==
    /\ PackagesLinked
    /\ \E p, q \in DOMAIN packages :
          /\ p < q
          /\ LinkedToPackage(p) # {} /\ LinkedBytes(p) = "png"
          /\ packages[p].image_filename = None
          /\ packages[q].uid # None

\* ------------------------------------------------------------------------
\* the outcomes of map_images_to_packages
\* ------------------------------------------------------------------------
\* map_images_to_packages has returned
ImagesMapped == pc \in {"assign_uids_and_save_images", "detect_detail_columns"}

\* the images (indices from 0) with a cell anchor that has its _from
CellAnchoredImages ==
    {i \in 0..(Len(images) - 1) :
        /\ images[i + 1].tname \in {"OneCellAnchor", "TwoCellAnchor"}
        /\ images[i + 1].from # None}

\* the sections image i resolves to: by its row, by its centre, or none when
\* the anchor is unrecognised or incomplete
SectionsOfImage(i) ==
    IF i \in CellAnchoredImages
    THEN {p \in DOMAIN packages :
            /\ packages[p].start_row <= images[i + 1].from[1] + 1
            /\ images[i + 1].from[1] + 1 <= packages[p].end_row[1]}
    ELSE IF i \in AbsoluteImages THEN SectionsHoldingCentre(i)
    ELSE {}

\* image i is linked to exactly one section
IsLinked(i) == Cardinality({p \in DOMAIN packages : i \in LinkedToPackage(p)}) = 1

\* image i is an extra image: it resolves to a section that holds an earlier
\* image, and is linked to none
IsIgnored(i) ==
    /\ i \notin LinkedImages
    /\ \E p \in SectionsOfImage(i) : \E j \in LinkedToPackage(p) : j < i

\* how many of the three outcomes image i has
Outcomes(i) ==
    (IF IsLinked(i) THEN 1 ELSE 0) + (IF IsIgnored(i) THEN 1 ELSE 0)
        + (IF i \in Unmatched THEN 1 ELSE 0)

\* C26: after map_images_to_packages every image index has exactly one
\* outcome: linked to exactly one section, ignored as an extra image of a
\* section that has one, or listed as unmatched; the unmatched list is
\* strictly ascending (each index once, in document order) and holds exactly
\* the images whose anchor is unrecognised or incomplete or resolves to no
\* section.
C26_ExactlyOneOutcome ==
    ImagesMapped =>
        /\ \A i \in 0..(Len(images) - 1) : Outcomes(i) = 1
        /\ \A j, k \in DOMAIN unmatched_images :
              j < k => unmatched_images[j] < unmatched_images[k]
        /\ Unmatched = {i \in 0..(Len(images) - 1) : SectionsOfImage(i) = {}}

\* C26 witness: map_images_to_packages has returned the list <<0, 1>> for an
\* absolute anchor without ext followed by a cell anchor below the last of
\* the sections.
C26_Witness ==
    /\ ImagesMapped
    /\ packages # <<>>
    /\ unmatched_images = <<0, 1>>
    /\ images[1].tname = "AbsoluteAnchor" /\ images[1].ext = None
    /\ 1 \in CellAnchoredImages

\* ------------------------------------------------------------------------
\* find_package_for_row and find_package_for_y_center on the same packages
\* ------------------------------------------------------------------------
\* the explicit heights of the rows: none, 0, 20 points
AgreeHeights == {None, Some(0), Some(20)}

\* a sheet with the header row at row 2, section titles in column 1 and rows
\* of several heights, as process_workbook loads it
InitAgree ==
    /\ pc = "compute_row_y_map"
    /\ ws_max_row = MaxAgreeRows
    /\ ws_max_column = 2
    /\ row_height \in [1..ws_max_row -> AgreeHeights]
    /\ defaultRowHeight \in {None, Some(12)}
    /\ \E c1 \in [1..ws_max_row -> {NoneCell, TextTitle}] :
          cells = SparseCells([k \in (1..ws_max_row) \X {1, 2} |->
                                 IF k[1] = 2
                                 THEN IF k[2] = 2 THEN StrCell(KW_part_number) ELSE NoneCell
                                 ELSE IF k[2] = 1 THEN c1[k[1]] ELSE NoneCell])
    /\ merged_cells = {}
    /\ GeomIdle
    /\ row = 1
    /\ SegIdle
    /\ CallIdle
    /\ FlatIdle
    /\ LinkIdle
    /\ WbIdle
    /\ BdIdle
    /\ RunIdle

SpecAgree == InitAgree /\ [][NextSeg]_vars

\* build_packages has returned its list
PackagesBuilt == pc = "packages_done"

\* the coordinates tried: around the top and the bottom of every row, the
\* middle of every row, and one above the sheet
ProbeCoordinates ==
    {-1} \cup UNION {{top_y[r] - 1, top_y[r], top_y[r] + 1, (top_y[r] + bottom_y[r]) \div 2,
                      bottom_y[r] - 1, bottom_y[r], bottom_y[r] + 1} : r \in 1..ws_max_row}

\* find_package_for_y_center(packages, y): the index of the package returned, 0 for None
PackageAtY(y) == FirstIndex(PackagesForYCenter(packages, y, 0))

\* find_package_for_row(packages, r): the index of the package returned, 0 for None
PackageAtRow(r) == FirstIndex(PackagesForRow(packages, r))

\* C27: for every section S returned by build_packages, every row r of S and
\* every coordinate y with top(r) <= y < bottom(r), find_package_for_y_center
\* and find_package_for_row return the same section, which is S; a coordinate
\* at or beyond the bottom of the last row, or above the top of the first
\* section, resolves to no section.
C27_PathsAgree ==
    PackagesBuilt =>
        /\ \A p \in DOMAIN packages : \A r \in packages[p].start_row..packages[p].end_row[1] :
              \A y \in ProbeCoordinates :
                 (top_y[r] <= y /\ y < bottom_y[r]) =>
                     /\ PackageAtY(y) = PackageAtRow(r)
                     /\ PackageAtY(y) = p
        /\ \A y \in ProbeCoordinates :
              (\/ y >= bottom_y[ws_max_row]
               \/ packages # <<>> /\ y < packages[1].y_start[1]) => PackageAtY(y) = 0

\* C27 witness: build_packages has returned two sections, the first of them
\* starting below row 1; a row of zero height lies in the first one, and the
\* top of the second section's first row resolves to the second section on
\* both paths.
C27_Witness ==
    /\ PackagesBuilt
    /\ Len(packages) = 2
    /\ packages[1].y_start[1] > 0
    /\ \E r \in packages[1].start_row..packages[1].end_row[1] : top_y[r] = bottom_y[r]
    /\ top_y[packages[2].start_row] < bottom_y[packages[2].start_row]
    /\ PackageAtY(top_y[packages[2].start_row]) = 2
    /\ PackageAtRow(packages[2].start_row) = 2

\* ------------------------------------------------------------------------
\* main of the openpyxl script: the image directory is cleaned, then every
\* workbook is given to process_workbook and its rows are collected
\* ------------------------------------------------------------------------
\* a workbook of the run: whether load_workbook can open it, its active
\* sheet, the sheet's merged ranges and its embedded images
Document(readable, max_row, grid, merges, imgs) ==
    [readable |-> readable, max_row |-> max_row, cells |-> SparseCells(grid),
     merged_cells |-> merges, images |-> imgs]

\* the header row of the run's sheets
RunHeaderRow ==
    SheetRow(NoneCell, StrCell(<<"N", "o", ".">>),
             StrCell(<<"P", "a", "r", "t", " ", "N", "u", "m", "b", "e", "r">>),
             NoneCell, StrCell(<<"Q", "T", "Y">>), NoneCell)

\* a sheet made of the given rows, six columns wide
RunGrid(rows) == [k \in (1..Len(rows)) \X (1..6) |-> rows[k[1]][k[2]]]

\* a sheet with a title row, the header row `head` and the given detail rows
RunSheet(head, details) ==
    RunGrid(<<SheetRow(TextTitle, NoneCell, NoneCell, NoneCell, NoneCell, NoneCell),
              head>> \o details)

\* a file that load_workbook cannot open
UnreadableDocument == Document(FALSE, 0, <<>>, {}, <<>>)

\* a sheet without a header row
NoHeaderDocument ==
    Document(TRUE, 2,
             RunGrid(<<SheetRow(TextTitle, NoneCell, NoneCell, NoneCell, NoneCell, NoneCell),
                       SheetRow(NoneCell, IntCell(1), TextP, NoneCell, NoneCell, NoneCell)>>),
             {}, <<>>)

\* a sheet with a header row and no section title
NoSectionsDocument ==
    Document(TRUE, 3,
             RunGrid(<<SheetRow(NoneCell, NoneCell, NoneCell, NoneCell, NoneCell, NoneCell),
                       RunHeaderRow,
                       SheetRow(NoneCell, IntCell(1), TextP, NoneCell, NoneCell, NoneCell)>>),
             {}, <<>>)

\* a sheet with one section, one detail row and the section's image
PlainDocument ==
    Document(TRUE, 3,
             RunSheet(RunHeaderRow,
                      <<SheetRow(NoneCell, IntCell(1), TextP, NoneCell, IntCell(4), NoneCell)>>),
             {}, <<Image("OneCellAnchor", Some(0), None, None, "png")>>)

\* a sheet whose first detail row has a text for its sequence number; the
\* quantity cells of its two detail rows are merged
TextSequenceDocument ==
    Document(TRUE, 4,
             RunSheet(RunHeaderRow,
                      <<SheetRow(NoneCell, StrCell(<<"x">>), TextP, NoneCell, IntCell(4), NoneCell),
                        SheetRow(NoneCell, IntCell(2), TextP, NoneCell, NoneCell, NoneCell)>>),
             {[min_row |-> 3, max_row |-> 4, min_col |-> 5, max_col |-> 5]}, <<>>)

\* a sheet whose header row has no sequence-number heading
NoDetailColumnsDocument ==
    Document(TRUE, 3,
             RunSheet(SheetRow(NoneCell, StrCell(<<"I", "d">>),
                               StrCell(<<"P", "a", "r", "t", " ", "N", "u", "m", "b", "e", "r">>),
                               NoneCell, StrCell(<<"Q", "T", "Y">>), NoneCell),
                      <<SheetRow(NoneCell, IntCell(1), TextP, NoneCell, IntCell(4), NoneCell)>>),
             {}, <<>>)

\* a sheet whose first detail row has the text 'inf' for its sequence number
InfSequenceDocument ==
    Document(TRUE, 4,
             RunSheet(RunHeaderRow,
                      <<SheetRow(NoneCell, TextInf, TextP, NoneCell, NoneCell, NoneCell),
                        SheetRow(NoneCell, IntCell(2), TextP, NoneCell, IntCell(4), NoneCell)>>),
             {}, <<>>)

RunDocuments ==
    {UnreadableDocument, NoHeaderDocument, NoSectionsDocument, PlainDocument,
     TextSequenceDocument, NoDetailColumnsDocument, InfSequenceDocument}

\* a file left in the image directory by an earlier run
StaleFile == <<0, "png">>

\* a loop that keeps the rows of the last workbook only
Extended_replaces(rows, new) == new

\* all_rows.extend(rows)
Extended(rows, new) == rows \o new

\* ensure_clean_images_dir(): the files of the image directory are removed
main_ensure_clean_images_dir ==
    /\ pc = "main"
    /\ image_files' = {}
    /\ dir_events' = Append(dir_events, ClearEvent)
    /\ pc' = "main_loop"
    /\ UNCHANGED <<sheet_vars, cells, merged_cells, geom_vars, row, seg_vars, call_vars,
                   flat_vars, images, unmatched_images, next_uid, idx, wb_vars, bd_vars,
                   run_vars>>

\* an iteration of `for full_path in xlsx_files` whose load_workbook raises:
\* process_workbook logs the error and returns [], main extends all_rows by it
main_open_failed ==
    /\ pc = "main_loop"
    /\ file_idx < Len(files)
    /\ ~files[file_idx + 1].readable
    /\ file_idx' = file_idx + 1
    /\ all_rows' = Extended(all_rows, <<>>)
    /\ doc_rows' = Append(doc_rows, <<>>)
    /\ UNCHANGED <<pc, sheet_vars, cells, merged_cells, geom_vars, row, seg_vars, call_vars,
                   flat_vars, link_vars, idx, wb_vars, bd_vars, files, global_index,
                   current_index, boundaries, y_pos, closest_row, dir_events>>

\* an iteration of `for full_path in xlsx_files` whose workbook opens:
\* process_workbook starts on its active sheet
main_process_workbook ==
    /\ pc = "main_loop"
    /\ file_idx < Len(files)
    /\ files[file_idx + 1].readable
    /\ LET doc == files[file_idx + 1]
       IN  /\ ws_max_row' = doc.max_row
           /\ ws_max_column' = FirstIndex({c \in 1..6 : \A k \in DOMAIN doc.cells : k[2] <= c})
           /\ row_height' = [r \in 1..doc.max_row |-> None]
           /\ defaultRowHeight' = None
           /\ cells' = doc.cells
           /\ merged_cells' = doc.merged_cells
           /\ images' = doc.images
    /\ top_y' = <<>> /\ bottom_y' = <<>> /\ acc' = 0
    /\ row' = 1
    /\ header_row' = 0 /\ packages' = <<>> /\ current_package' = None
    /\ idx' = 0
    /\ unmatched_images' = <<>>
    /\ detail_cols' = None /\ data_ranges' = <<>> /\ cells_before_fill' = <<>>
    /\ rows_for_excel' = <<>> /\ result' = None
    /\ pc' = "compute_row_y_map"
    /\ UNCHANGED <<call_vars, flat_vars, next_uid, image_files, bd_vars, run_vars, dir_events>>

\* rows = process_workbook(full_path) has returned: all_rows.extend(rows)
main_extend ==
    /\ pc = "returned"
    /\ all_rows' = Extended(all_rows, result[1])
    /\ doc_rows' = Append(doc_rows, result[1])
    /\ file_idx' = file_idx + 1
    /\ pc' = "main_loop"
    /\ UNCHANGED <<sheet_vars, cells, merged_cells, geom_vars, row, seg_vars, call_vars,
                   flat_vars, link_vars, idx, wb_vars, bd_vars, files, global_index,
                   current_index, boundaries, y_pos, closest_row, dir_events>>

\* process_workbook has raised: nothing in main catches the exception, the
\* run ends with it
main_raise ==
    /\ pc = "raised"
    /\ pc' = "aborted"
    /\ UNCHANGED <<sheet_vars, cells, merged_cells, geom_vars, row, seg_vars, call_vars,
                   flat_vars, link_vars, idx, wb_vars, bd_vars, run_vars, dir_events>>

\* the loop over xlsx_files is over: the output workbook is built from all_rows
main_done ==
    /\ pc = "main_loop"
    /\ file_idx = Len(files)
    /\ pc' = "main_output"
    /\ UNCHANGED <<sheet_vars, cells, merged_cells, geom_vars, row, seg_vars, call_vars,
                   flat_vars, link_vars, idx, wb_vars, bd_vars, run_vars, dir_events>>

\* main starts on the workbooks found under ROOT_DIR; the image directory
\* is empty or holds a file of an earlier run
InitMain ==
    /\ pc = "main"
    /\ files \in SeqsUpTo(RunDocuments, MaxDocs)
    /\ file_idx = 0 /\ all_rows = <<>> /\ doc_rows = <<>>
    /\ dir_events = <<>> /\ global_index = 0 /\ current_index = 0
    /\ boundaries = <<>> /\ y_pos = None /\ closest_row = None
    /\ ws_max_row = 0
    /\ ws_max_column = 0
    /\ row_height = <<>>
    /\ defaultRowHeight = None
    /\ cells = <<>>
    /\ merged_cells = {}
    /\ GeomIdle
    /\ row = 1
    /\ SegIdle
    /\ CallIdle
    /\ FlatIdle
    /\ images = <<>> /\ idx = 0 /\ unmatched_images = <<>> /\ next_uid = 0
    /\ image_files \in {{}, {StaleFile}}
    /\ WbIdle
    /\ BdIdle

NextMain ==
    \/ main_ensure_clean_images_dir
    \/ main_open_failed
    \/ main_process_workbook
    \/ NextWb
    \/ main_extend
    \/ main_raise
    \/ main_done

\* ------------------------------------------------------------------------
\* a bad sequence number in a run of main
\* ------------------------------------------------------------------------
\* the run has left the loop over the workbooks
RunEnded == pc = "main_output"

\* the detail rows of a workbook's sheet that have a part number or a
\* description and a sequence number that is an integer, as a number or as text
RecordRows(doc) ==
    {r \in 3..doc.max_row :
        /\ \/ NonBlank(CellValue(doc.cells, r, 3))
           \/ NonBlank(CellValue(doc.cells, r, 4))
        /\ LET v == CellValue(doc.cells, r, 2)
           IN  \/ v.t = "int"
               \/ v.t = "str" /\ py_float(py_strip(v.s)).ok
                              /\ py_float(py_strip(v.s)).cls = "fin"}

\* the sheet rows of the records the k-th workbook contributed
ContributedRows(k) == {doc_rows[k][j].row : j \in DOMAIN doc_rows[k]}

\* the workbooks that have sections and detail columns
DetailDocuments == {PlainDocument, TextSequenceDocument, InfSequenceDocument}

\* C22: a bad sequence number is contained at row level: whatever a
\* sequence-number cell holds, to_int_or_none raises nothing and the run is
\* not ended by an exception; the row is emitted or skipped, and every other
\* row and every document of the batch is processed: when the run ends,
\* every workbook has contributed the records of its rows that have a part
\* number or a description and an integer sequence number.
C22_BadSequenceNumberContained ==
    /\ pc \notin {"raised", "aborted"}
    /\ RunEnded =>
          /\ Len(doc_rows) = Len(files)
          /\ \A k \in DOMAIN files :
                files[k] \in DetailDocuments => ContributedRows(k) = RecordRows(files[k])

\* C22 witness: the first workbook of two has 'inf' for a sequence number;
\* the exception of to_int_or_none has ended the run before row 4 of that
\* workbook and before the second workbook were processed.
C22_Witness ==
    /\ pc = "aborted"
    /\ Len(files) = 2
    /\ files[1] = InfSequenceDocument
    /\ files[2] = PlainDocument
    /\ file_idx = 0
    /\ all_rows = <<>>
    /\ 4 \in RecordRows(files[1])

\* the statement of C22 for the runs none of whose workbooks holds 'inf'
C22_HoldsWithoutInf ==
    (\A k \in DOMAIN files : files[k] # InfSequenceDocument) =>
        C22_BadSequenceNumberContained

\* a workbook with the text 'x' for a sequence number has contributed the
\* record of its other row, and the workbook after it has been processed
C22_TextIsSkipped ==
    /\ RunEnded
    /\ Len(files) = 2
    /\ files[1] = TextSequenceDocument
    /\ ContributedRows(1) = {4}
    /\ ContributedRows(2) = {3}

\* ------------------------------------------------------------------------
\* build_data.py: build_row_boundaries and approx_row_from_y
\* ------------------------------------------------------------------------
\* default_height_pts: sheet_format.defaultRowHeight, 15 when it is None
bd_default_height_pts ==
    IF defaultRowHeight = None THEN DEFAULT_ROW_HEIGHT ELSE defaultRowHeight[1]

\* h_pts: the row's own height, else the default one
bd_h_pts(r) == IF row_height[r] # None THEN row_height[r][1] ELSE bd_default_height_pts

\* one iteration of `for r in range(1, ws.max_row + 1)` of build_row_boundaries
build_row_boundaries_step ==
    /\ pc = "build_row_boundaries"
    /\ row <= ws_max_row
    /\ boundaries' = Append(boundaries,
                            [row_idx |-> row - 1, start_y |-> acc,
                             end_y |-> acc + bd_h_pts(row) * EMU_PER_POINT])
    /\ acc' = acc + bd_h_pts(row) * EMU_PER_POINT
    /\ row' = row + 1
    /\ UNCHANGED <<pc, sheet_vars, cells, merged_cells, top_y, bottom_y, seg_vars, call_vars,
                   flat_vars, link_vars, idx, wb_vars, bd_vars, files, file_idx, all_rows,
                   doc_rows, global_index, current_index, y_pos, closest_row, dir_events>>

\* return boundaries, to extract_images: to its loop over ws._images, to
\* its end when the sheet has no image, or to the call of approx_row_from_y
\* when that function is run on its own
build_row_boundaries_return ==
    /\ pc = "build_row_boundaries"
    /\ row > ws_max_row
    /\ pc' = IF file_idx >= Len(files) THEN "approx_row_from_y"
             ELSE IF images = <<>> THEN "extract_images"
             ELSE "extract_images_loop"
    /\ UNCHANGED <<sheet_vars, cells, merged_cells, geom_vars, row, seg_vars, call_vars,
                   flat_vars, link_vars, idx, wb_vars, bd_vars, run_vars, dir_events>>

\* |x|
Abs(x) == IF x < 0 THEN 0 - x ELSE x

\* twice the distance abs(center - y_pos) of the i-th boundary
TwiceDist(bs, i, y) == Abs(bs[i].start_y + bs[i].end_y - 2 * y)

\* a loop that takes a row whose distance equals min_dist, so that the last
\* of the nearest rows wins
RECURSIVE ApproxLastFrom(_, _, _, _, _)
ApproxLastFrom(bs, y, i, min_dist, closest) ==
    IF i > Len(bs) THEN closest
    ELSE IF min_dist = None \/ TwiceDist(bs, i, y) <= min_dist[1]
    THEN ApproxLastFrom(bs, y, i + 1, Some(TwiceDist(bs, i, y)), bs[i].row_idx)
    ELSE ApproxLastFrom(bs, y, i + 1, min_dist, closest)

approx_row_from_y_last_nearest(bs, y) ==
    IF y = None \/ bs = <<>> THEN None
    ELSE Some(ApproxLastFrom(bs, y[1], 1, None, bs[Len(bs)].row_idx))

\* the loop `for row_idx, start_y, end_y in boundaries` from the i-th
\* boundary on; min_dist None stands for float("inf")
RECURSIVE ApproxFrom(_, _, _, _, _)
ApproxFrom(bs, y, i, min_dist, closest) ==
    IF i > Len(bs) THEN closest
    ELSE IF min_dist = None \/ TwiceDist(bs, i, y) < min_dist[1]
    THEN ApproxFrom(bs, y, i + 1, Some(TwiceDist(bs, i, y)), bs[i].row_idx)
    ELSE ApproxFrom(bs, y, i + 1, min_dist, closest)

\* approx_row_from_y(boundaries, y_pos), an Optional row
approx_row_from_y(bs, y) ==
    IF y = None \/ bs = <<>> THEN None
    ELSE Some(ApproxFrom(bs, y[1], 1, None, bs[Len(bs)].row_idx))

\* the positions tried: the ends and the middle of every row and the
\* positions next to its ends, one position above the sheet, and None
ApproxPositions ==
    {None, Some(0 - 1)} \cup
    UNION {{Some(boundaries[i].start_y), Some(boundaries[i].start_y + 1),
            Some((boundaries[i].start_y + boundaries[i].end_y) \div 2),
            Some(boundaries[i].end_y - 1), Some(boundaries[i].end_y)} :
              i \in DOMAIN boundaries}

\* row_idx = approx_row_from_y(boundaries, y_pos)
approx_row_from_y_call ==
    /\ pc = "approx_row_from_y"
    /\ \E y \in ApproxPositions :
          /\ y_pos' = y
          /\ closest_row' = approx_row_from_y(boundaries, y)
    /\ pc' = "approx_done"
    /\ UNCHANGED <<sheet_vars, cells, merged_cells, geom_vars, row, seg_vars, call_vars,
                   flat_vars, link_vars, idx, wb_vars, bd_vars, files, file_idx, all_rows,
                   doc_rows, global_index, current_index, boundaries, dir_events>>

\* the explicit heights of the rows, in points
ApproxHeights == {None, Some(10), Some(100)}

\* a sheet given to build_row_boundaries
InitApprox ==
    /\ pc = "build_row_boundaries"
    /\ ws_max_row \in 0..MaxApproxRows
    /\ ws_max_column = 1
    /\ row_height \in [1..ws_max_row -> ApproxHeights]
    /\ defaultRowHeight \in {None, Some(12)}
    /\ cells = <<>>
    /\ merged_cells = {}
    /\ GeomIdle
    /\ row = 1
    /\ SegIdle
    /\ CallIdle
    /\ FlatIdle
    /\ LinkIdle
    /\ WbIdle
    /\ BdIdle
    /\ RunIdle

NextApprox ==
    \/ build_row_boundaries_step
    \/ build_row_boundaries_return
    \/ approx_row_from_y_call

SpecApprox == InitApprox /\ [][NextApprox]_vars

\* approx_row_from_y has returned for a position
ApproxDone == pc = "approx_done" /\ y_pos # None

\* the rows (0-based) whose [start_y, end_y) holds y
ContainingRows(y) ==
    {boundaries[i].row_idx : i \in {j \in DOMAIN boundaries :
        boundaries[j].start_y <= y /\ y < boundaries[j].end_y}}

\* y lies inside the sheet's coordinate range
InsideSheet(y) ==
    boundaries # <<>> /\ 0 <= y /\ y < boundaries[Len(boundaries)].end_y

\* C29 as stated: for every position y inside the sheet's coordinate range,
\* approx_row_from_y returns the row whose [start_y, end_y) holds y, whatever
\* the heights of the rows.
C29_NearestIsContaining ==
    (ApproxDone /\ InsideSheet(y_pos[1])) =>
        /\ closest_row # None
        /\ closest_row[1] \in ContainingRows(y_pos[1])

\* all rows have the same height
UniformHeights ==
    \A i, j \in DOMAIN boundaries :
        boundaries[i].end_y - boundaries[i].start_y
            = boundaries[j].end_y - boundaries[j].start_y

\* C29 amended: for every position y inside the sheet's coordinate range,
\* approx_row_from_y returns the first row, in sheet order, whose centre is
\* nearest to y; when all rows have the same height this is the row whose
\* [start_y, end_y) holds y, except that a position on the boundary between
\* two rows gives the upper one; with rows of different heights it can be a
\* row that does not hold y.
C29_FirstNearestByCentre ==
    (ApproxDone /\ InsideSheet(y_pos[1])) =>
        /\ closest_row # None
        /\ \E i \in DOMAIN boundaries :
              /\ boundaries[i].row_idx = closest_row[1]
              /\ \A j \in DOMAIN boundaries :
                    /\ TwiceDist(boundaries, i, y_pos[1]) <= TwiceDist(boundaries, j, y_pos[1])
                    /\ j < i => TwiceDist(boundaries, i, y_pos[1])
                                   < TwiceDist(boundaries, j, y_pos[1])
              /\ UniformHeights =>
                    /\ boundaries[i].start_y <= y_pos[1] /\ y_pos[1] <= boundaries[i].end_y
                    /\ y_pos[1] # boundaries[i].end_y =>
                          closest_row[1] \in ContainingRows(y_pos[1])

\* C29 witness: a row of 10 points is followed by a row of 100 points; for
\* the first position of the second row approx_row_from_y has returned the
\* first row, whose centre is nearer.
C29_Witness ==
    /\ ApproxDone
    /\ Len(boundaries) >= 2
    /\ boundaries[1].end_y = 10 * EMU_PER_POINT
    /\ boundaries[2].end_y = 110 * EMU_PER_POINT
    /\ y_pos = Some(boundaries[2].start_y)
    /\ InsideSheet(y_pos[1])
    /\ closest_row = Some(0)
    /\ ContainingRows(y_pos[1]) = {1}

\* ------------------------------------------------------------------------
\* build_data.py: main, extract_images and the rows of extract_manual_to_flat
\* ------------------------------------------------------------------------
\* the image's row: anchor._from.row - 1, else the row approx_row_from_y
\* gives for anchor.pos.y, else None
bd_row_idx(img) ==
    IF img.from # None THEN Some(img.from[1] - 1)
    ELSE IF img.pos # None /\ img.pos[1] # None
    THEN approx_row_from_y(boundaries, img.pos[1])
    ELSE None

\* one iteration of `for img in ws._images`: the image is saved under a
\* fresh guid unless its bytes cannot be read or the save fails, and it is
\* recorded with its file name and its row in both cases
bd_extract_image ==
    /\ pc = "extract_images_loop"
    /\ idx < Len(images)
    /\ LET img  == images[idx + 1]
           guid == uuid4(next_uid)
           name == <<guid, guess_image_ext(img.data)>>
       IN  /\ next_uid' = guid
           /\ \/ /\ HasBytes(img.data)
                 /\ image_files' = image_files \cup {name}
                 /\ dir_events' = Append(dir_events, WriteEvent(name))
              \/ /\ UNCHANGED <<image_files, dir_events>>
           /\ images_info' = Append(images_info,
                                    [guid |-> guid, filename |-> name,
                                     row_idx |-> bd_row_idx(img), used |-> FALSE])
    /\ idx' = idx + 1
    /\ pc' = IF idx' = Len(images) THEN "extract_images" ELSE pc
    /\ UNCHANGED <<sheet_vars, cells, merged_cells, geom_vars, row, seg_vars, call_vars,
                   flat_vars, images, unmatched_images, wb_vars, sections, run_vars>>

\* no_col: the last column of the first header row whose text starts with
\* "no", else pn_col - 1
bd_no_col(cs) ==
    LET r0 == MinOf(bd_header_rows(cs))
        ns == {c \in df_columns :
                 /\ df_iloc(cs, r0, c).t = "str"
                 /\ py_startswith(py_lower(py_strip(df_iloc(cs, r0, c).s)), <<"n", "o">>)}
    IN  IF ns = {} THEN bd_pn_col(cs) - 1 ELSE MaxOf(ns)

\* qty_col: the last column of the first header row whose text starts with
\* "qty", else pn_col + 2
bd_qty_col(cs) ==
    LET r0 == MinOf(bd_header_rows(cs))
        qs == {c \in df_columns :
                 /\ df_iloc(cs, r0, c).t = "str"
                 /\ py_startswith(py_lower(py_strip(df_iloc(cs, r0, c).s)), <<"q", "t", "y">>)}
    IN  IF qs = {} THEN bd_pn_col(cs) + 2 ELSE MaxOf(qs)

\* to_int_or_none of build_data: None for NaN, int(float(value)) otherwise;
\* ValueError is caught, the OverflowError of int(inf) is not
bd_to_int_or_none(value) ==
    IF value.t = "none" THEN [kind |-> "none", n |-> 0]
    ELSE IF value.t = "int" THEN [kind |-> "int", n |-> value.n]
    ELSE LET f == py_float(py_strip(value.s))
         IN  IF ~f.ok \/ f.cls = "nan" THEN [kind |-> "none", n |-> 0]
             ELSE IF f.cls = "inf" THEN [kind |-> "raise", n |-> 0]
             ELSE [kind |-> "int", n |-> IF f.neg THEN 0 - f.whole ELSE f.whole]

\* df.iloc[r, c] if c in df.columns else None
bd_value(cs, r, c) == IF c \in df_columns THEN df_iloc(cs, r, c) ELSE NoneCell

\* df.loc[a:b, c].ffill() at row r: the last value of rows a .. r that is
\* not NaN
bd_ffill_value(cs, c, a, r) ==
    LET S == {q \in a..r : df_iloc(cs, q, c).t # "none"}
    IN  IF S = {} THEN NoneCell ELSE df_iloc(cs, MaxOf(S), c)

\* the sections (indices) among the first n whose data rows hold row r
bd_sections_of_row(secs, n, r) ==
    {i \in 1..n : i <= Len(secs) /\ secs[i].data_start <= r /\ r <= secs[i].data_end}

\* df after the forward fills of the No and QTY columns in the data rows of
\* the first n sections
bd_filled(cs, cols, secs, n) ==
    SparseCells([k \in (1..ws_max_row) \X (1..ws_max_column) |->
        IF /\ (k[2] - 1) \in {cols.no, cols.qty}
           /\ bd_sections_of_row(secs, n, k[1] - 1) # {}
        THEN bd_ffill_value(cs, k[2] - 1,
                            secs[MinOf(bd_sections_of_row(secs, n, k[1] - 1))].data_start,
                            k[1] - 1)
        ELSE CellValue(cs, k[1], k[2])])

\* package_name: the text of column 0 in the title row, stripped
bd_package_name(cs, sec) ==
    IF 0 \in df_columns /\ sec.title_row \in df_index /\ df_iloc(cs, sec.title_row, 0).t = "str"
    THEN py_strip(df_iloc(cs, sec.title_row, 0).s)
    ELSE <<>>

\* str(v).strip() if pd.notna(v) else None
bd_text(v) == IF v.t = "none" THEN None ELSE Some(py_strip(py_str(v)))

\* row r is not skipped for want of a part number and a part name
bd_has_part(cs, cols, r) ==
    bd_value(cs, r, cols.pn).t # "none" \/ bd_value(cs, r, cols.desc).t # "none"

\* the body of `while row_idx <= data_end` raises on row r: to_int_or_none
\* of its No, or of its QTY when its No is an integer
bd_row_raises(cs, cols, r) ==
    /\ bd_has_part(cs, cols, r)
    /\ \/ bd_to_int_or_none(bd_value(cs, r, cols.no)).kind = "raise"
       \/ /\ bd_to_int_or_none(bd_value(cs, r, cols.no)).kind = "int"
          /\ bd_to_int_or_none(bd_value(cs, r, cols.qty)).kind = "raise"

\* the body appends a row_dict for row r
bd_row_appended(cs, cols, r) ==
    /\ bd_has_part(cs, cols, r)
    /\ bd_to_int_or_none(bd_value(cs, r, cols.no)).kind = "int"
    /\ bd_to_int_or_none(bd_value(cs, r, cols.qty)).kind # "raise"

\* row_dict of row r
bd_row_dict(cs, cols, sec, r) ==
    [package_guid |-> sec.package_guid, image_filename |-> sec.image_filename,
     pkg_name |-> bd_package_name(cs, sec),
     no |-> bd_to_int_or_none(bd_value(cs, r, cols.no)).n,
     part |-> bd_text(bd_value(cs, r, cols.pn)),
     desc |-> bd_text(bd_value(cs, r, cols.desc)),
     qty |-> IntOrNoneCell(bd_to_int_or_none(bd_value(cs, r, cols.qty))),
     row |-> r]

\* the row_dicts of one section, in row order
bd_section_rows(cs, cols, sec) ==
    LET rs == Ascending({r \in sec.data_start..sec.data_end : bd_row_appended(cs, cols, r)})
    IN  [j \in DOMAIN rs |-> bd_row_dict(cs, cols, sec, rs[j])]

\* the sections (indices) one of whose rows raises
bd_raising_sections(cs, cols, secs) ==
    {i \in DOMAIN secs :
        \E r \in secs[i].data_start..secs[i].data_end : bd_row_raises(cs, cols, r)}

\* all_rows: the row_dicts of the sections from the i-th on
RECURSIVE bd_all_rows_from(_, _, _, _)
bd_all_rows_from(cs, cols, secs, i) ==
    IF i > Len(secs) THEN <<>>
    ELSE bd_section_rows(cs, cols, secs[i]) \o bd_all_rows_from(cs, cols, secs, i + 1)

\* the rest of extract_manual_to_flat: the loop `for sec in sections` that
\* fills the No and QTY columns and builds all_rows, then
\* return pd.DataFrame(all_rows); or the exception of to_int_or_none, which
\* leaves the function in the first section that has a raising row
bd_emit ==
    /\ pc = "sections_linked"
    /\ LET cols   == [pn |-> bd_pn_col(cells), no |-> bd_no_col(cells),
                      desc |-> bd_desc_col(cells), qty |-> bd_qty_col(cells)]
           filled == bd_filled(cells, cols, sections, Len(sections))
           bad    == bd_raising_sections(filled, cols, sections)
       IN  IF bad # {}
           THEN /\ cells' = bd_filled(cells, cols, sections, MinOf(bad))
                /\ pc' = "bd_raised"
                /\ result' = result
           ELSE /\ cells' = filled
                /\ pc' = "bd_returned"
                /\ result' = Some(bd_all_rows_from(cells', cols, sections, 1))
    /\ UNCHANGED <<sheet_vars, merged_cells, geom_vars, row, seg_vars, call_vars, flat_vars,
                   link_vars, idx, detail_cols, data_ranges, cells_before_fill,
                   rows_for_excel, bd_vars, run_vars, dir_events>>

\* main: shutil.rmtree(img_root), the image folder of an earlier run goes
bd_main_rmtree ==
    /\ pc = "bd_main"
    /\ image_files' = {}
    /\ dir_events' = Append(dir_events, ClearEvent)
    /\ pc' = "bd_main_loop"
    /\ UNCHANGED <<sheet_vars, cells, merged_cells, geom_vars, row, seg_vars, call_vars,
                   flat_vars, images, unmatched_images, next_uid, idx, wb_vars, bd_vars,
                   run_vars>>

\* an iteration of `for file in manual_files` whose pd.ExcelFile raises: the
\* exception is caught by main and printed
bd_main_open_failed ==
    /\ pc = "bd_main_loop"
    /\ file_idx < Len(files)
    /\ ~files[file_idx + 1].readable
    /\ file_idx' = file_idx + 1
    /\ doc_rows' = Append(doc_rows, <<>>)
    /\ UNCHANGED <<pc, sheet_vars, cells, merged_cells, geom_vars, row, seg_vars, call_vars,
                   flat_vars, link_vars, idx, wb_vars, bd_vars, files, all_rows, global_index,
                   current_index, boundaries, y_pos, closest_row, dir_events>>

\* an iteration of `for file in manual_files` whose file opens:
\* extract_manual_to_flat reads the sheet and calls extract_images
bd_main_extract ==
    /\ pc = "bd_main_loop"
    /\ file_idx < Len(files)
    /\ files[file_idx + 1].readable
    /\ LET doc == files[file_idx + 1]
       IN  /\ ws_max_row' = doc.max_row
           /\ ws_max_column' = 3
           /\ row_height' = [r \in 1..doc.max_row |-> None]
           /\ defaultRowHeight' = None
           /\ cells' = doc.cells
           /\ merged_cells' = doc.merged_cells
           /\ images' = doc.images
    /\ acc' = 0
    /\ row' = 1
    /\ boundaries' = <<>>
    /\ idx' = 0
    /\ sections' = <<>> /\ images_info' = <<>>
    /\ result' = None
    /\ pc' = "build_row_boundaries"
    /\ UNCHANGED <<top_y, bottom_y, seg_vars, call_vars, flat_vars, unmatched_images,
                   next_uid, image_files, detail_cols, data_ranges, cells_before_fill,
                   rows_for_excel, files, file_idx, all_rows, doc_rows, global_index,
                   current_index, y_pos, closest_row, dir_events>>

\* df = extract_manual_to_flat(...) has returned: the frame is appended to
\* all_dfs unless it is empty (pd.concat joins the frames in this order)
bd_main_append ==
    /\ pc \in {"bd_returned", "skipped"}
    /\ LET df == IF pc = "skipped" THEN <<>> ELSE result[1]
       IN  /\ all_rows' = IF df = <<>> THEN all_rows ELSE Extended(all_rows, df)
           /\ doc_rows' = Append(doc_rows, df)
    /\ file_idx' = file_idx + 1
    /\ pc' = "bd_main_loop"
    /\ UNCHANGED <<sheet_vars, cells, merged_cells, geom_vars, row, seg_vars, call_vars,
                   flat_vars, link_vars, idx, wb_vars, bd_vars, files, global_index,
                   current_index, boundaries, y_pos, closest_row, dir_events>>

\* extract_manual_to_flat has raised: `except Exception` prints the error
\* and the loop goes on
bd_main_except ==
    /\ pc = "bd_raised"
    /\ doc_rows' = Append(doc_rows, <<>>)
    /\ file_idx' = file_idx + 1
    /\ pc' = "bd_main_loop"
    /\ UNCHANGED <<sheet_vars, cells, merged_cells, geom_vars, row, seg_vars, call_vars,
                   flat_vars, link_vars, idx, wb_vars, bd_vars, files, all_rows, global_index,
                   current_index, boundaries, y_pos, closest_row, dir_events>>

\* the loop over manual_files is over: final = pd.concat(all_dfs)
bd_main_done ==
    /\ pc = "bd_main_loop"
    /\ file_idx = Len(files)
    /\ pc' = "main_output"
    /\ UNCHANGED <<sheet_vars, cells, merged_cells, geom_vars, row, seg_vars, call_vars,
                   flat_vars, link_vars, idx, wb_vars, bd_vars, run_vars, dir_events>>

\* a sheet of build_data made of the given rows, three columns wide: the
\* title or the sequence number, the part number, the description
BdGrid(rows) == [k \in (1..Len(rows)) \X (1..3) |-> rows[k[1]][k[2]]]

BdTitleRow == <<TextTitle, NoneCell, NoneCell>>

BdHeaderRow ==
    <<NoneCell, StrCell(<<"P", "a", "r", "t", " ", "N", "u", "m", "b", "e", "r">>),
      StrCell(<<"D", "e", "s", "c", "r", "i", "p", "t", "i", "o", "n">>)>>

\* a sheet without header row
BdNoHeaderDocument ==
    Document(TRUE, 2, BdGrid(<<BdTitleRow, <<IntCell(1), TextP, NoneCell>>>>), {}, <<>>)

\* a sheet whose header row has no data row below it
BdNoSectionsDocument ==
    Document(TRUE, 2, BdGrid(<<BdTitleRow, BdHeaderRow>>), {}, <<>>)

\* a sheet with two detail rows, the second without sequence number, and
\* two images, the second without bytes
BdPlainDocument ==
    Document(TRUE, 4, BdGrid(<<BdTitleRow, BdHeaderRow, <<IntCell(1), TextP, NoneCell>>,
                                <<NoneCell, NoneCell, TextD>>>>), {},
             <<Image("OneCellAnchor", Some(1), None, None, "png"),
               Image("AbsoluteAnchor", None, Some(Some(0)), Some(Some(0)), "none")>>)

\* a sheet whose first detail row has the text 'x' for its sequence number
BdTextSequenceDocument ==
    Document(TRUE, 4, BdGrid(<<BdTitleRow, BdHeaderRow, <<StrCell(<<"x">>), TextP, NoneCell>>,
                                <<IntCell(2), TextP, NoneCell>>>>), {}, <<>>)

\* a sheet whose first detail row has the text 'inf' for its sequence number
BdInfSequenceDocument ==
    Document(TRUE, 4, BdGrid(<<BdTitleRow, BdHeaderRow, <<TextInf, TextP, NoneCell>>,
                                <<IntCell(2), TextP, NoneCell>>>>), {}, <<>>)

\* the workbooks of a run of build_data
BdDocuments ==
    {UnreadableDocument, BdNoHeaderDocument, BdNoSectionsDocument, BdPlainDocument,
     BdTextSequenceDocument, BdInfSequenceDocument}

\* main of build_data starts on the workbooks found under root_dir
InitBdMain ==
    /\ pc = "bd_main"
    /\ files \in SeqsUpTo(BdDocuments, MaxDocs)
    /\ file_idx = 0 /\ all_rows = <<>> /\ doc_rows = <<>>
    /\ dir_events = <<>> /\ global_index = 0 /\ current_index = 0
    /\ boundaries = <<>> /\ y_pos = None /\ closest_row = None
    /\ ws_max_row = 0
    /\ ws_max_column = 0
    /\ row_height = <<>>
    /\ defaultRowHeight = None
    /\ cells = <<>>
    /\ merged_cells = {}
    /\ GeomIdle
    /\ row = 1
    /\ SegIdle
    /\ CallIdle
    /\ FlatIdle
    /\ images = <<>> /\ idx = 0 /\ unmatched_images = <<>> /\ next_uid = 0
    /\ image_files \in {{}, {StaleFile}}
    /\ WbIdle
    /\ BdIdle

NextBdMain ==
    \/ bd_main_rmtree
    \/ bd_main_open_failed
    \/ bd_main_extract
    \/ build_row_boundaries_step
    \/ build_row_boundaries_return
    \/ bd_extract_image
    \/ extract_images_return
    \/ bd_build_sections
    \/ bd_link_section
    \/ bd_link_return
    \/ bd_emit
    \/ bd_main_append
    \/ bd_main_except
    \/ bd_main_done

\* a run of either script over a batch of workbooks
InitRun == InitMain \/ InitBdMain

NextRun == NextMain \/ NextBdMain

SpecRun == InitRun /\ [][NextRun]_vars

\* ------------------------------------------------------------------------
\* the records of a batch
\* ------------------------------------------------------------------------
\* the workbooks that cannot be opened, have no header row or yield no section
StructurallyEmptyDocuments ==
    {UnreadableDocument, NoHeaderDocument, NoSectionsDocument, BdNoHeaderDocument,
     BdNoSectionsDocument}

\* the records contributed by the workbooks k .. n that are not
\* structurally empty, in processing order
RECURSIVE RecordsOfOthers(_, _)
RecordsOfOthers(k, n) ==
    IF k > n THEN <<>>
    ELSE (IF files[k] \in StructurallyEmptyDocuments THEN <<>> ELSE doc_rows[k])
            \o RecordsOfOthers(k + 1, n)

\* the sheet rows whose records a workbook yields when it is processed alone
ExpectedRows(doc) ==
    IF doc \in {PlainDocument, TextSequenceDocument} THEN RecordRows(doc)
    ELSE IF doc = BdPlainDocument THEN {2, 3}
    ELSE IF doc = BdTextSequenceDocument THEN {3}
    ELSE {}

\* C23: in a batch, a workbook that cannot be opened, has no header row or
\* yields no section contributes zero records and does not end the run: the
\* run goes on to the workbooks after it; the records collected are the
\* concatenation, in processing order, of the records of the other
\* workbooks processed, each of which contributes the records of its own rows.
C23_EmptyDocumentsAreSkipped ==
    /\ Len(doc_rows) <= Len(files)
    /\ all_rows = RecordsOfOthers(1, Len(doc_rows))
    /\ \A k \in DOMAIN doc_rows :
          /\ files[k] \in StructurallyEmptyDocuments => doc_rows[k] = <<>>
          /\ files[k] \in {PlainDocument, TextSequenceDocument, BdPlainDocument,
                           BdTextSequenceDocument} =>
                ContributedRows(k) = ExpectedRows(files[k])
    /\ pc \in {"raised", "aborted", "bd_raised"} =>
          files[file_idx + 1] \notin StructurallyEmptyDocuments
    /\ RunEnded => Len(doc_rows) = Len(files)

\* C23 witness: a run of build_data over a workbook without header row and
\* a workbook with two detail rows has ended; the records collected are the
\* two of the second workbook.
C23_Witness ==
    /\ RunEnded
    /\ files = <<BdNoHeaderDocument, BdPlainDocument>>
    /\ doc_rows[1] = <<>>
    /\ Len(all_rows) = 2
    /\ all_rows = doc_rows[2]

\* a run of the openpyxl script over a file that cannot be opened and a
\* workbook with a detail row has ended with the record of the second one
C23_UnreadableThenPlain ==
    /\ RunEnded
    /\ files = <<UnreadableDocument, PlainDocument>>
    /\ dir_events[1] = ClearEvent
    /\ Len(all_rows) = 1
    /\ all_rows[1].pkg_name = <<"A", "x", "l", "e">>

\* ------------------------------------------------------------------------
\* the image directory over a whole run
\* ------------------------------------------------------------------------
\* the run has not cleaned the image directory yet
BeforeCleaning == pc \in {"main", "bd_main"}

\* the file names written so far, in the order of the writes
WrittenNames ==
    {dir_events[i].name : i \in {j \in DOMAIN dir_events : dir_events[j].op = "write"}}

\* C25: over a whole run the image directory is cleared exactly once, before
\* the first workbook is processed; after it files are only added: no file
\* written is deleted and no file name is written twice, every persisted
\* image having a name of its own.
C25_ClearedOnceThenAppendOnly ==
    /\ BeforeCleaning => dir_events = <<>> /\ file_idx = 0 /\ doc_rows = <<>> /\ ws_max_row = 0
    /\ ~BeforeCleaning =>
          /\ dir_events # <<>>
          /\ dir_events[1] = ClearEvent
          /\ \A i \in DOMAIN dir_events : i > 1 => dir_events[i].op = "write"
          /\ \A i, j \in DOMAIN dir_events :
                i < j => dir_events[i].name # dir_events[j].name
          /\ image_files = WrittenNames

\* C25 witness: a run over two workbooks with an image each has ended; the
\* directory was cleared of the file of an earlier run, then the two image
\* files were written under different names, and both are there.
C25_Witness ==
    /\ RunEnded
    /\ Len(files) = 2
    /\ Len(dir_events) = 3
    /\ dir_events[2].name # dir_events[3].name
    /\ image_files = {dir_events[2].name, dir_events[3].name}
    /\ StaleFile \notin image_files

\* ------------------------------------------------------------------------
\* images.py: walk_and_process_root, process_workbook, export_shape_to_image
\* ------------------------------------------------------------------------
\* A workbook of the COM script: whether Workbooks.Open succeeds, and the
\* shapes of its worksheets in the order the loops visit them. A shape is
\*   "other"         not a picture (shp.Type # MSO_PICTURE)
\*   "picture"       a picture that shp.Export writes
\*   "unexportable"  a picture whose shp.Export raises
\*   "unreadable"    a picture whose shp.Name (or Left, Top, ...) raises
Workbook(opens, shapes) == [opens |-> opens, shapes |-> shapes]

ExportWorkbooks ==
    { Workbook(FALSE, <<>>),
      Workbook(TRUE, <<>>),
      Workbook(TRUE, <<"picture">>),
      Workbook(TRUE, <<"other", "picture">>),
      Workbook(TRUE, <<"picture", "unreadable">>),
      Workbook(TRUE, <<"unexportable", "picture">>) }

\* img_NNNN.png
img_name(global_index_arg) == <<global_index_arg, "png">>

\* what the picture-export actions leave alone
ExportFrame == <<sheet_vars, cells, merged_cells, geom_vars, row, seg_vars, call_vars,
                 flat_vars, link_vars, wb_vars, bd_vars, all_rows, doc_rows,
                 boundaries, y_pos, closest_row>>

\* the workbook being processed
ExportWorkbook == files[file_idx]

\* walk_and_process_root: the next Excel file is handed to process_workbook
\* with the current global_index; Workbooks.Open succeeds
export_process_workbook ==
    /\ pc = "walk_and_process_root"
    /\ file_idx < Len(files)
    /\ files[file_idx + 1].opens
    /\ file_idx' = file_idx + 1
    /\ current_index' = global_index
    /\ idx' = 0
    /\ pc' = "shapes_loop"
    /\ UNCHANGED <<ExportFrame, files, global_index, dir_events>>

\* Workbooks.Open raises before current_index is assigned; the except clause
\* of walk_and_process_root prints the error and the walk goes on
export_open_failed ==
    /\ pc = "walk_and_process_root"
    /\ file_idx < Len(files)
    /\ ~files[file_idx + 1].opens
    /\ file_idx' = file_idx + 1
    /\ UNCHANGED <<pc, ExportFrame, files, idx, global_index, current_index, dir_events>>

\* a shape that is not a picture is passed over
export_skip_shape ==
    /\ pc = "shapes_loop"
    /\ idx < Len(ExportWorkbook.shapes)
    /\ ExportWorkbook.shapes[idx + 1] = "other"
    /\ idx' = idx + 1
    /\ UNCHANGED <<pc, ExportFrame, files, file_idx, global_index, current_index,
                   dir_events>>

\* a picture: current_index += 1, its properties are read, and
\* export_shape_to_image writes img_<current_index>.png (the exported picture,
\* or an empty file when shp.Export raises)
export_shape_to_image ==
    /\ pc = "shapes_loop"
    /\ idx < Len(ExportWorkbook.shapes)
    /\ ExportWorkbook.shapes[idx + 1] \in {"picture", "unexportable"}
    /\ current_index' = current_index + 1
    /\ dir_events' = Append(dir_events, WriteEvent(img_name(current_index + 1)))
    /\ idx' = idx + 1
    /\ UNCHANGED <<pc, ExportFrame, files, file_idx, global_index>>

\* a picture: current_index += 1, then the unguarded read of shp.Name raises
\* and the exception leaves process_workbook through its finally clause
export_shape_raises ==
    /\ pc = "shapes_loop"
    /\ idx < Len(ExportWorkbook.shapes)
    /\ ExportWorkbook.shapes[idx + 1] = "unreadable"
    /\ current_index' = current_index + 1
    /\ pc' = "walk_except"
    /\ UNCHANGED <<ExportFrame, files, file_idx, idx, global_index, dir_events>>

\* process_workbook returns current_index, which becomes global_index
export_return ==
    /\ pc = "shapes_loop"
    /\ idx = Len(ExportWorkbook.shapes)
    /\ global_index' = current_index
    /\ pc' = "walk_and_process_root"
    /\ UNCHANGED <<ExportFrame, files, file_idx, idx, current_index, dir_events>>

\* except Exception in walk_and_process_root: the error is printed, the
\* assignment to global_index did not happen, the walk goes on
export_except ==
    /\ pc = "walk_except"
    /\ pc' = "walk_and_process_root"
    /\ UNCHANGED <<ExportFrame, files, file_idx, idx, global_index, current_index,
                   dir_events>>

\* the walk is over
export_done ==
    /\ pc = "walk_and_process_root"
    /\ file_idx = Len(files)
    /\ pc' = "main_output"
    /\ UNCHANGED <<ExportFrame, files, file_idx, idx, global_index, current_index,
                   dir_events>>

InitExport ==
    /\ pc = "walk_and_process_root"
    /\ files \in SeqsUpTo(ExportWorkbooks, MaxDocs)
    /\ file_idx = 0 /\ all_rows = <<>> /\ doc_rows = <<>>
    /\ dir_events = <<>> /\ global_index = 0 /\ current_index = 0
    /\ boundaries = <<>> /\ y_pos = None /\ closest_row = None
    /\ ws_max_row = 0
    /\ ws_max_column = 0
    /\ row_height = <<>>
    /\ defaultRowHeight = None
    /\ cells = <<>>
    /\ merged_cells = {}
    /\ GeomIdle
    /\ row = 1
    /\ SegIdle
    /\ CallIdle
    /\ FlatIdle
    /\ LinkIdle
    /\ WbIdle
    /\ BdIdle

NextExport ==
    \/ export_process_workbook
    \/ export_open_failed
    \/ export_skip_shape
    \/ export_shape_to_image
    \/ export_shape_raises
    \/ export_return
    \/ export_except
    \/ export_done

SpecExport == InitExport /\ [][NextExport]_vars

\* the positions of dir_events
ExportEvents == 1..Len(dir_events)

\* the workbooks processed so far that raised part-way
RaisedPartWay ==
    {k \in 1..file_idx : \E s \in 1..Len(files[k].shapes) : files[k].shapes[s] = "unreadable"}

\* C28 as stated: across a whole run of walk_and_process_root no img_NNNN.png
\* is written twice, every exported picture has an index of its own, also
\* when process_workbook raised part-way through a workbook.
C28_NoIndexWrittenTwice ==
    \A i, j \in ExportEvents :
        i # j => dir_events[i].name # dir_events[j].name

\* C28 witness: the run is over, a workbook raised after one of its pictures
\* was exported, and a later workbook wrote the file of that picture again.
C28_Witness ==
    /\ pc = "main_output"
    /\ Len(files) = 2
    /\ files[1] = Workbook(TRUE, <<"picture", "unreadable">>)
    /\ files[2].opens
    /\ global_index = 1
    /\ dir_events = <<WriteEvent(img_name(1)), WriteEvent(img_name(1))>>

\* what does hold: the indices are distinct as long as no workbook processed
\* so far raised part-way, and then the files are img_1 .. img_<current_index>
C28_DistinctWithoutRaise ==
    RaisedPartWay = {} =>
        /\ C28_NoIndexWrittenTwice
        /\ \A i \in ExportEvents : dir_events[i].name = img_name(i)

====
